---- MODULE Spec2Model ----
(***************************************************************************)
(* Model of the authentication core of webapp-factory (apps/api/auth):     *)
(* the session token codec (auth/jwt.py), the claims model                 *)
(* (auth/models.py), the FastAPI guard dependencies (auth/deps.py) and the *)
(* decorator guards (auth/decorators.py); and of the Google sign-in around *)
(* it: the OAuth service (services/google_oauth_service.py), the           *)
(* popup-flow routes (routes/google_auth.py) and the redirect flow         *)
(* (services/auth_service.py).                                             *)
(*                                                                         *)
(* Text values (str) are sequences of character codes, so that str.lower() *)
(* is modelled by what it does.  The empty string is << >>.  Time is       *)
(* counted in ticks of half a second, so that int(now.timestamp())         *)
(* truncates.                                                              *)
(***************************************************************************)
EXTENDS Integers, Sequences, FiniteSets, TLC

VARIABLES
    now,        \* the wall clock, in ticks
    issued,     \* the token as the last sign / encode call returned it
    minted,     \* the arguments of that call
    token,      \* the token a client presents (issued, or altered in flight)
    result,     \* what the last verify_access_jwt / auth_required call returned or raised
    call,       \* the last guard call: kind, guards, claims, request context
    outcome,    \* what that guard call returned or raised
    previous,   \* detail and HTTP status of the failure the dependency call before raised
    environ,    \* the process environment the settings and services read
    svc,        \* the GoogleOAuthService singleton
    tasks,      \* the coroutines verifying ID tokens
    net,        \* Google's side: its current keys and the JWKS requests it got
    reply,      \* what the last construction, refresh or revocation gave
    request,    \* the HTTP request a route of routes/google_auth.py is handling
    served,     \* what the route answered, with the provider calls it made
    cookies,    \* the browser's cookie jar: the value stored under each cookie name
    users,      \* the user repository: the stored document of each user id
    jobs        \* the apply_billing_event coroutines: position, event, what they read

vars == <<now, issued, minted, token, result, call, outcome, previous,
          environ, svc, tasks, net, reply, request, served, cookies, users, jobs>>
jwtOnly == <<issued, minted, token, result>>
oauthVars == <<environ, svc, tasks, net, reply>>
billingVars == <<users, jobs>>
routeVars == <<request, served, cookies, billingVars>>
jwtVars == <<now, jwtOnly, oauthVars, routeVars>>
guardVars == <<call, outcome, previous>>

(***************************************************************************)
(* Bounds of the model.                                                    *)
(***************************************************************************)
MaxEarly == 1       \* the clock visits the ticks within MaxEarly of each minute boundary
MaxTtl == 1         \* ttl_minutes ranges over -MaxTtl..MaxTtl

(***************************************************************************)
(* Values.                                                                 *)
(***************************************************************************)
None == <<-1>>              \* Python None (no text holds a negative code)
Absent == <<-2>>            \* a key that the JSON object does not have
NoneList == <<None>>        \* Python None where a list of texts is expected
TicksPerSec == 2
SecsPerMinute == 60

APP_JWT_AUDIENCE == "webapp-factory"
APP_JWT_ISSUER == "https://api.example.com"
APP_JWT_SECRET == "dev-secret-change-me"
OtherAudience == "wrong-audience"
OtherIssuer == "https://issuer.elsewhere.example"
OtherSecret == "another-secret"

\* "a", "e", "f", "o", "p", "r", "u" as texts
Ch(c) == <<c>>
SubjectValues == {<< >>, Ch(117)}
EmailValues == {None, Ch(101)}
OrgValues == {None, Ch(111)}
RoleLists == {NoneList, << >>, <<Ch(114)>>}
PlanValues == {None, Ch(112)}
FeatureLists == {NoneList, <<Ch(102)>>}

ClaimInputs ==
    [sub : SubjectValues, email : EmailValues, orgId : OrgValues,
     roles : RoleLists, plan : PlanValues, features : FeatureLists]

Ttls == (0 - MaxTtl)..MaxTtl

TicksPerMinute == SecsPerMinute * TicksPerSec

ClockPoints ==
    {t \in UNION {(m * TicksPerMinute - MaxEarly)..(m * TicksPerMinute + MaxEarly)
                  : m \in 0..MaxTtl} : t >= 0}

(***************************************************************************)
(* jwt.encode / jwt.decode (HS256, compact serialisation).                 *)
(***************************************************************************)
\* HMAC-SHA256 as an ideal MAC: the tag determines key and message.
Hmac(key, msg) == [key |-> key, msg |-> msg]

\* base64url without padding: 32 bytes take 43 characters, the last of which
\* carries 4 bits of the tag and 2 spare bits, which the encoder sets to 0.
B64Encode(bytes) == [bytes |-> bytes, spare |-> 0]

\* base64.urlsafe_b64decode drops the spare bits without looking at them.
B64Decode(segment) == segment.bytes

JwtEncode(payload, key) ==
    [form |-> "jws", payload |-> payload, sig |-> B64Encode(Hmac(key, payload))]

NoPayload ==
    [sub |-> Absent, email |-> None, orgId |-> None, roles |-> << >>, plan |-> None,
     features |-> << >>, iat |-> 0, exp |-> 0, aud |-> "", iss |-> ""]

\* the empty string, and a string that is no three-segment token
EmptyToken == [form |-> "empty", payload |-> NoPayload, sig |-> B64Encode(Hmac("", NoPayload))]
MalformedToken == [form |-> "malformed", payload |-> NoPayload, sig |-> B64Encode(Hmac("", NoPayload))]

IntTimestamp(t) == t \div TicksPerSec

OrEmptyList(v) == IF v = NoneList \/ v = << >> THEN << >> ELSE v

\* sign_access_jwt with the email left out of the payload
sign_access_jwt_NoEmail(input, ttl_minutes, t) ==
    JwtEncode(
        [sub |-> input.sub, email |-> None, orgId |-> input.orgId,
         roles |-> OrEmptyList(input.roles), plan |-> input.plan,
         features |-> OrEmptyList(input.features), iat |-> IntTimestamp(t),
         exp |-> IntTimestamp(t + ttl_minutes * TicksPerMinute),
         aud |-> APP_JWT_AUDIENCE, iss |-> APP_JWT_ISSUER],
        APP_JWT_SECRET)

sign_access_jwt(input, ttl_minutes, t) ==
    JwtEncode(
        [sub |-> input.sub,
         email |-> input.email,
         orgId |-> input.orgId,
         roles |-> OrEmptyList(input.roles),
         plan |-> input.plan,
         features |-> OrEmptyList(input.features),
         iat |-> IntTimestamp(t),
         exp |-> IntTimestamp(t + ttl_minutes * TicksPerMinute),
         aud |-> APP_JWT_AUDIENCE,
         iss |-> APP_JWT_ISSUER],
        APP_JWT_SECRET)

Raise(status, detail) == [ok |-> FALSE, status |-> status, detail |-> detail, claims |-> NoPayload]
Return(claims) == [ok |-> TRUE, status |-> 200, detail |-> "", claims |-> claims]

JWTError(detail) == Raise(401, detail)

\* jwt.decode with options={"verify_signature": False}
SignatureValid_Unverified(tok, key) == TRUE

SignatureValid(tok, key) == B64Decode(tok.sig) = Hmac(key, tok.payload)

\* a token counted as live at the very instant of its exp
Expired_AfterExp(payload, t) == payload.exp * TicksPerSec < t

Expired(payload, t) == payload.exp * TicksPerSec <= t

\* jwt.decode(token, key, algorithms=[alg], audience=aud): the signature, then
\* exp, then aud; no issuer is passed, so iss is not looked at.
JwtDecode(tok, key, audience, t) ==
    IF tok.form # "jws" THEN "InvalidTokenError"
    ELSE IF ~SignatureValid(tok, key) THEN "InvalidTokenError"
    ELSE IF Expired(tok.payload, t) THEN "ExpiredSignatureError"
    ELSE IF tok.payload.aud # audience THEN "InvalidTokenError"
    ELSE "decoded"

\* verify_access_jwt without the sanity check of lines 93-97
verify_access_jwt_NoSubjectCheck(tok, t) ==
    IF tok.form = "empty" THEN JWTError("Invalid token")
    ELSE LET decoded == JwtDecode(tok, APP_JWT_SECRET, APP_JWT_AUDIENCE, t) IN
         IF decoded = "ExpiredSignatureError" THEN JWTError("Token expired")
         ELSE IF decoded = "InvalidTokenError" THEN JWTError("Invalid token")
         ELSE Return(tok.payload)

verify_access_jwt(tok, t) ==
    IF tok.form = "empty" THEN JWTError("Invalid token")
    ELSE LET decoded == JwtDecode(tok, APP_JWT_SECRET, APP_JWT_AUDIENCE, t) IN
         IF decoded = "ExpiredSignatureError" THEN JWTError("Token expired")
         ELSE IF decoded = "InvalidTokenError" THEN JWTError("Invalid token")
         ELSE IF tok.payload.sub = Absent \/ tok.payload.sub = << >>
              THEN JWTError("Missing subject")
         ELSE Return(tok.payload)

(***************************************************************************)
(* auth/models.py: AuthClaims, and auth/deps.py: auth_required.            *)
(***************************************************************************)
\* AuthClaims(**claims_dict): keeps the six fields, None lists become [], and
\* the extra keys (iat, exp, aud, iss) are ignored.
AuthClaims(d) ==
    [sub |-> d.sub, email |-> d.email, orgId |-> d.orgId,
     roles |-> IF d.roles = NoneList THEN << >> ELSE d.roles,
     plan |-> d.plan,
     features |-> IF d.features = NoneList THEN << >> ELSE d.features]

NoClaims == AuthClaims(NoPayload)

\* The Authorization header: absent, of another scheme, or "Bearer <token>"
\* (in any letter case).
Headers(tok) ==
    {[scheme |-> "absent", token |-> EmptyToken],
     [scheme |-> "basic", token |-> tok],
     [scheme |-> "bearer", token |-> tok]}

auth_required(authorization, t) ==
    IF authorization.scheme # "bearer"
    THEN [Raise(401, "Missing bearer token") EXCEPT !.claims = NoClaims]
    ELSE LET claims_dict == verify_access_jwt(authorization.token, t) IN
         IF ~claims_dict.ok THEN [claims_dict EXCEPT !.claims = NoClaims]
         ELSE IF claims_dict.claims.sub \in {Absent, None, << >>}
              THEN [Raise(500, "ValidationError") EXCEPT !.claims = NoClaims]
         ELSE Return(AuthClaims(claims_dict.claims))

\* no token signed yet, no call made yet
NoInput ==
    [sub |-> Absent, email |-> None, orgId |-> None, roles |-> NoneList, plan |-> None,
     features |-> NoneList]
NotMinted == [by |-> "none", input |-> NoInput, ttl |-> 0, at |-> 0]
Idle == [op |-> "none", res |-> Raise(0, "")]

(***************************************************************************)
(* auth/models.py: the helper methods of AuthClaims.                       *)
(***************************************************************************)
\* str.lower() on the ASCII letters
Lower(c) == IF c \in 65..90 THEN c + 32 ELSE c
LowerText(t) == [i \in 1..Len(t) |-> Lower(t[i])]
LowerAll(list) == {LowerText(list[i]) : i \in 1..Len(list)}

\* str(v): the text of a text is itself, str(None) is "None"
NoneText == <<78, 111, 110, 101>>
Str(v) == IF v = None THEN NoneText ELSE v

\* has_role comparing the role as given, not lower-cased
has_role_AsGiven(claims, role) == role \in LowerAll(claims.roles)

has_role(claims, role) == LowerText(role) \in LowerAll(claims.roles)

has_any_role(claims, roles) == LowerAll(claims.roles) \cap LowerAll(roles) # {}

has_plan(claims, plans) ==
    IF claims.plan = None THEN FALSE
    ELSE LowerText(claims.plan) \in LowerAll(plans)

has_feature(claims, feature) == LowerText(feature) \in LowerAll(claims.features)

\* belongs_to_org without the test for None of lines 56-57
belongs_to_org_NoNoneTest(claims, org_id) == Str(claims.orgId) = Str(org_id)

belongs_to_org(claims, org_id) ==
    IF claims.orgId = None THEN FALSE
    ELSE Str(claims.orgId) = Str(org_id)

(***************************************************************************)
(* auth/deps.py: the FastAPI dependencies.                                 *)
(***************************************************************************)
Falsy(v) == v = None \/ v = << >>
OrElse(a, b) == IF Falsy(a) THEN b ELSE a

\* the keyword arguments of a call of a service function, and what its body gives
Kwargs(claims, org_id, user_id) == [claims |-> claims, org_id |-> org_id, user_id |-> user_id]
NoKwargs == Kwargs(NoClaims, None, None)
NoResult == [kind |-> "none", value |-> NoKwargs]

Deny(status, detail, names) ==
    [ok |-> FALSE, status |-> status, detail |-> detail, names |-> names,
     claims |-> NoClaims, evaluated |-> << >>, called |-> FALSE,
     received |-> NoKwargs, result |-> NoResult]
Pass(claims) ==
    [ok |-> TRUE, status |-> 200, detail |-> "", names |-> << >>,
     claims |-> claims, evaluated |-> << >>, called |-> FALSE,
     received |-> NoKwargs, result |-> NoResult]

\* claims_or_auth: AuthClaims, or the text of an Authorization header, which
\* the dependency then hands to auth_required.
ResolveClaims(arg, t) ==
    IF arg.isStr
    THEN LET auth == auth_required(arg.authorization, t) IN
         IF auth.ok THEN Pass(auth.claims) ELSE Deny(auth.status, auth.detail, << >>)
    ELSE Pass(arg.claims)

require_roles(allowed, arg, t) ==
    LET got == ResolveClaims(arg, t) IN
    IF ~got.ok THEN got
    ELSE IF LowerAll(allowed) \cap LowerAll(got.claims.roles) = {}
         THEN Deny(403, "Insufficient role. Required", allowed)
    ELSE Pass(got.claims)

\* require_plan raising 403 like the other dependencies
require_plan_Forbidden(plans, arg, t) ==
    LET got == ResolveClaims(arg, t) IN
    IF ~got.ok THEN got
    ELSE IF LowerText(OrElse(got.claims.plan, << >>)) \notin LowerAll(plans)
         THEN Deny(403, "Upgrade required. Required plan", plans)
    ELSE Pass(got.claims)

require_plan(plans, arg, t) ==
    LET got == ResolveClaims(arg, t) IN
    IF ~got.ok THEN got
    ELSE IF LowerText(OrElse(got.claims.plan, << >>)) \notin LowerAll(plans)
         THEN Deny(402, "Upgrade required. Required plan", plans)
    ELSE Pass(got.claims)

require_feature(flag, arg, t) ==
    LET got == ResolveClaims(arg, t) IN
    IF ~got.ok THEN got
    ELSE IF LowerText(flag) \notin LowerAll(got.claims.features)
         THEN Deny(403, "Feature not enabled", <<flag>>)
    ELSE Pass(got.claims)

\* path and query: request.path_params.get(p) and request.query_params.get(p)
require_org(arg, path, query, t) ==
    LET got == ResolveClaims(arg, t)
        param_value == OrElse(path, query) IN
    IF ~got.ok THEN got
    ELSE IF Falsy(param_value)
         THEN Deny(400, "Missing required parameter", << >>)
    ELSE IF ~belongs_to_org(got.claims, param_value)
         THEN Deny(403, "Access denied: organization mismatch", << >>)
    ELSE Pass(got.claims)

(***************************************************************************)
(* auth/decorators.py: the decorator guards.  A guard is its kind and the  *)
(* names it was built with; a wrapped function is the sequence of guards   *)
(* around it, outermost first.                                             *)
(***************************************************************************)
GuardError(detail, names) == Deny(0, detail, names)

\* _inner of each guard, up to its call of fn
GuardCheck(guard, claims, org_id) ==
    IF guard.kind = "authenticated"
    THEN IF claims = NoClaims THEN GuardError("Authentication required", << >>) ELSE Pass(claims)
    ELSE IF claims = NoClaims THEN GuardError("Missing authentication claims", << >>)
    ELSE IF guard.kind = "roles"
    THEN IF LowerAll(guard.names) \cap LowerAll(claims.roles) = {}
         THEN GuardError("Insufficient role. Required", guard.names) ELSE Pass(claims)
    ELSE IF guard.kind = "plan"
    THEN IF LowerText(OrElse(claims.plan, << >>)) \notin LowerAll(guard.names)
         THEN GuardError("Upgrade required. Required plan", guard.names) ELSE Pass(claims)
    ELSE IF guard.kind = "feature"
    THEN IF LowerText(guard.names[1]) \notin LowerAll(claims.features)
         THEN GuardError("Feature not enabled", guard.names) ELSE Pass(claims)
    ELSE IF Falsy(org_id) THEN GuardError("Missing required parameter", << >>)
    ELSE IF ~belongs_to_org(claims, org_id)
         THEN GuardError("Access denied: organization mismatch", << >>)
    ELSE Pass(claims)

RECURSIVE Reversed(_)
Reversed(seq) == IF seq = << >> THEN << >> ELSE Append(Reversed(Tail(seq)), Head(seq))

\* for guard in <guards>: fn = guard(fn)
RECURSIVE WrapEach(_, _)
WrapEach(guards, fn) ==
    IF guards = << >> THEN fn ELSE WrapEach(Tail(guards), <<Head(guards)>> \o fn)

\* combine_guards wrapping in the order given, so that the last guard is outermost
combine_guards_InOrder(guards) == WrapEach(guards, << >>)

combine_guards(guards) == WrapEach(Reversed(guards), << >>)

\* the body of a service function: it returns what it was called with, or
\* raises an error of its own
Body(body, kwargs) ==
    IF body = "raises" THEN [kind |-> "ValueError", value |-> NoKwargs]
    ELSE [kind |-> "return", value |-> kwargs]

\* a wrapped function that hands its body other keyword arguments than its caller's
CallWrapped_NoUserId(fn, body, kwargs, evaluated) ==
    LET RECURSIVE Inner(_, _)
        Inner(f, done) ==
            IF f = << >>
            THEN [Pass(kwargs.claims) EXCEPT !.evaluated = done, !.called = TRUE,
                      !.received = [kwargs EXCEPT !.user_id = None],
                      !.result = Body(body, [kwargs EXCEPT !.user_id = None])]
            ELSE LET checked == GuardCheck(Head(f), kwargs.claims, kwargs.org_id) IN
                 IF ~checked.ok
                 THEN [checked EXCEPT !.evaluated = Append(done, Head(f))]
                 ELSE Inner(Tail(f), Append(done, Head(f)))
    IN Inner(fn, evaluated)

\* the call fn(claims=..., org_id=..., user_id=...) of a wrapped function:
\* each _inner checks and then calls the function it wraps with *args, **kwargs
RECURSIVE CallWrapped(_, _, _, _)
CallWrapped(fn, body, kwargs, evaluated) ==
    IF fn = << >>
    THEN [Pass(kwargs.claims) EXCEPT !.evaluated = evaluated, !.called = TRUE,
              !.received = kwargs, !.result = Body(body, kwargs)]
    ELSE LET checked == GuardCheck(Head(fn), kwargs.claims, kwargs.org_id) IN
         IF ~checked.ok
         THEN [checked EXCEPT !.evaluated = Append(evaluated, Head(fn))]
         ELSE CallWrapped(Tail(fn), body, kwargs, Append(evaluated, Head(fn)))

(***************************************************************************)
(* settings.py and services/google_oauth_service.py: the Google OAuth      *)
(* service.  Keys, identifiers and refresh tokens are texts; a Fernet      *)
(* token is the key it was made under, its plaintext and its random IV; a  *)
(* JWKS document is the set of its key ids.  In SpecOAuth the clock counts *)
(* TicksPerHour ticks to the hour.                                         *)
(***************************************************************************)
MaxTasks == 2           \* coroutines that verify ID tokens
MaxFetches == 3         \* JWKS requests in one behaviour
MaxClock == 4           \* the last tick of the clock
TicksPerHour == 2
JwksCacheTtlHours == 1

\* the texts "production", "Production", "prod", "development", "dev", "test",
\* "testing" and "staging"
EnvNames ==
    [production |-> <<112, 114, 111, 100, 117, 99, 116, 105, 111, 110>>,
     Production |-> <<80, 114, 111, 100, 117, 99, 116, 105, 111, 110>>,
     prod |-> <<112, 114, 111, 100>>,
     development |-> <<100, 101, 118, 101, 108, 111, 112, 109, 101, 110, 116>>,
     dev |-> <<100, 101, 118>>,
     test |-> <<116, 101, 115, 116>>,
     testing |-> <<116, 101, 115, 116, 105, 110, 103>>,
     staging |-> <<115, 116, 97, 103, 105, 110, 103>>]

\* Settings._get_environment: the Environment of settings.ENV
_get_environment(ENV) ==
    LET env_str == LowerText(ENV) IN
    IF env_str \in {EnvNames.dev, EnvNames.development} THEN "development"
    ELSE IF env_str \in {EnvNames.test, EnvNames.testing} THEN "testing"
    ELSE IF env_str \in {EnvNames.prod, EnvNames.production} THEN "production"
    ELSE IF env_str = EnvNames.staging THEN "staging"
    ELSE "development"

is_production(ENV) == _get_environment(ENV) = "production"

\* the process environment: APP_ENV (settings.ENV) and the variables the
\* service reads at construction
Environs ==
    [ENV : {EnvNames.production, EnvNames.Production, EnvNames.prod, EnvNames.development},
     APP_REFRESH_TOKEN_KEY : {None, << >>, Ch(75)},
     APP_GOOGLE_CLIENT_ID : {Ch(99)}, APP_GOOGLE_CLIENT_SECRET : {Ch(115)}]
        \cup [ENV : {EnvNames.development}, APP_REFRESH_TOKEN_KEY : {Ch(75)},
              APP_GOOGLE_CLIENT_ID : {None, Ch(99)}, APP_GOOGLE_CLIENT_SECRET : {None}]

\* _get_encryption_key asking the settings whether this is production
_get_encryption_key_IsProduction(env, generated) ==
    IF ~Falsy(env.APP_REFRESH_TOKEN_KEY) THEN Return(env.APP_REFRESH_TOKEN_KEY)
    ELSE IF is_production(env.ENV)
    THEN Raise(500, "Production requires APP_REFRESH_TOKEN_KEY to be set")
    ELSE Return(generated)

\* generated: what Fernet.generate_key() gives
_get_encryption_key(env, generated) ==
    IF ~Falsy(env.APP_REFRESH_TOKEN_KEY) THEN Return(env.APP_REFRESH_TOKEN_KEY)
    ELSE IF env.ENV = EnvNames.production
    THEN Raise(500, "Production requires APP_REFRESH_TOKEN_KEY to be set")
    ELSE Return(generated)

\* no instance yet; _jwks_cache None is {-1} and _jwks_cache_time None is -1
NoService ==
    [client_id |-> None, client_secret |-> None, encryption_key |-> None,
     _jwks_cache |-> {-1}, _jwks_cache_time |-> -1]
_jwks_cache_ttl == JwksCacheTtlHours * TicksPerHour

\* GoogleOAuthService.__init__
GoogleOAuthService(env, generated) ==
    LET key == _get_encryption_key(env, generated) IN
    IF Falsy(env.APP_GOOGLE_CLIENT_ID)
    THEN Raise(500, "Google OAuth not configured. Set APP_GOOGLE_CLIENT_ID or GOOGLE_CLIENT_ID")
    ELSE IF Falsy(env.APP_GOOGLE_CLIENT_SECRET)
    THEN Raise(500, "Google OAuth not configured. Set APP_GOOGLE_CLIENT_SECRET or GOOGLE_CLIENT_SECRET")
    ELSE IF ~key.ok THEN key
    ELSE Return([NoService EXCEPT !.client_id = env.APP_GOOGLE_CLIENT_ID,
                                  !.client_secret = env.APP_GOOGLE_CLIENT_SECRET,
                                  !.encryption_key = key.claims])

\* cryptography.fernet: decrypt gives None where it raises InvalidToken
Encrypt(key, plain, iv) == [key |-> key, plain |-> plain, iv |-> iv]
\* a decryption that does not authenticate the token
Decrypt_AnyKey(key, cipher) == cipher.plain
Decrypt(key, cipher) == IF cipher.key = key THEN cipher.plain ELSE None

\* the ID tokens presented: kid 0 is a header without kid, and the key that
\* signed a token is signer
IdTokens ==
    LET good == [kid |-> 2, signer |-> 2, aud |-> Ch(99), iss |-> "https://accounts.google.com",
                 exp |-> MaxClock + 1, hd |-> None, sub |-> Ch(117), email |-> Ch(101)] IN
    {good, [good EXCEPT !.kid = 3, !.signer = 3], [good EXCEPT !.kid = 0],
     [good EXCEPT !.aud = Ch(120)]}

\* the Workspace domains "a.io", "A.io" and "b.io"
Domains == [a |-> <<97, 46, 105, 111>>, A |-> <<65, 46, 105, 111>>, b |-> <<98, 46, 105, 111>>]

\* the ID tokens with every hd claim: none, or one of the domains
WorkspaceIdTokens ==
    {[id_token EXCEPT !.hd = hd] : id_token \in IdTokens,
                                   hd \in {None, Domains.a, Domains.A, Domains.b}}

\* verify_id_token that verifies under the key that signed the token, whether
\* or not the JWKS document holds it
verify_id_token_AnyKey(jwks, id_token, client_id, expected_domain, t) ==
    IF id_token.kid = 0 THEN Raise(400, "ID token missing key ID")
    ELSE IF id_token.signer # id_token.kid THEN Raise(401, "Invalid ID token")
    ELSE IF id_token.exp <= t THEN Raise(401, "ID token has expired")
    ELSE IF id_token.iss \notin {"https://accounts.google.com", "accounts.google.com"}
    THEN Raise(401, "Invalid ID token issuer")
    ELSE IF id_token.aud # client_id THEN Raise(401, "Invalid ID token audience")
    ELSE IF ~Falsy(expected_domain) /\ id_token.hd # expected_domain
    THEN Raise(403, "User not from expected domain")
    ELSE Return([id |-> id_token.sub, email |-> id_token.email, hd |-> id_token.hd])

\* verify_id_token that does not look at the hd claim
verify_id_token_AnyDomain(jwks, id_token, client_id, expected_domain, t) ==
    IF id_token.kid = 0 THEN Raise(400, "ID token missing key ID")
    ELSE IF id_token.kid \notin jwks
    THEN Raise(400, "Unable to find matching public key for ID token")
    ELSE IF id_token.signer # id_token.kid THEN Raise(401, "Invalid ID token")
    ELSE IF id_token.exp <= t THEN Raise(401, "ID token has expired")
    ELSE IF id_token.iss \notin {"https://accounts.google.com", "accounts.google.com"}
    THEN Raise(401, "Invalid ID token issuer")
    ELSE IF id_token.aud # client_id THEN Raise(401, "Invalid ID token audience")
    ELSE Return([id |-> id_token.sub, email |-> id_token.email, hd |-> id_token.hd])

\* verify_id_token once _get_jwks has returned jwks
verify_id_token(jwks, id_token, client_id, expected_domain, t) ==
    IF id_token.kid = 0 THEN Raise(400, "ID token missing key ID")
    ELSE IF id_token.kid \notin jwks
    THEN Raise(400, "Unable to find matching public key for ID token")
    ELSE IF id_token.signer # id_token.kid THEN Raise(401, "Invalid ID token")
    ELSE IF id_token.exp <= t THEN Raise(401, "ID token has expired")
    ELSE IF id_token.iss \notin {"https://accounts.google.com", "accounts.google.com"}
    THEN Raise(401, "Invalid ID token issuer")
    ELSE IF id_token.aud # client_id THEN Raise(401, "Invalid ID token audience")
    ELSE IF ~Falsy(expected_domain) /\ id_token.hd # expected_domain
    THEN Raise(403, "User not from expected domain")
    ELSE Return([id |-> id_token.sub, email |-> id_token.email, hd |-> id_token.hd])

\* CacheValid without the test of the age of the cache
CacheValid_AnyAge(service, t) ==
    /\ service._jwks_cache # NoService._jwks_cache /\ service._jwks_cache # {}
    /\ service._jwks_cache_time # NoService._jwks_cache_time

\* _get_jwks: the test that serves the cached keys
CacheValid(service, t) ==
    /\ service._jwks_cache # NoService._jwks_cache /\ service._jwks_cache # {}
    /\ service._jwks_cache_time # NoService._jwks_cache_time
    /\ t - service._jwks_cache_time < _jwks_cache_ttl

\* the key ids of the JWKS document Google serves after version - 1 rotations
KeySet(version) == {version, version + 1}

\* what refresh_access_token and revoke_token give: raised is the status of
\* the HTTPException (0: none, -1: an httpx transport error), posted the
\* token sent to Google (None: no request)
\* For verify_id_token, at is the time _get_jwks read, cached whether it served
\* the cache and jwks the keys it returned.
Reply(op, input, response, posted, raised, detail, value) ==
    [op |-> op, input |-> input, response |-> response, posted |-> posted, raised |-> raised,
     detail |-> detail,
     access_token |-> value[1], refresh_token |-> value[2], revoked |-> value[3],
     at |-> 0, cached |-> FALSE, jwks |-> {}]
NoValue == <<None, Encrypt(None, None, 0), FALSE>>

\* refresh_access_token returning the provider's refresh token under no key
refresh_access_token_Unencrypted(service, encrypted_refresh_token, response, iv) ==
    LET refresh_token == Decrypt(service.encryption_key, encrypted_refresh_token) IN
    IF refresh_token = None
    THEN Reply("refresh", encrypted_refresh_token, response, None, 401, "Invalid refresh token", NoValue)
    ELSE IF response.status = -1
    THEN Reply("refresh", encrypted_refresh_token, response, refresh_token, -1, "httpx.TransportError",
               NoValue)
    ELSE IF response.status # 200
    THEN Reply("refresh", encrypted_refresh_token, response, refresh_token, 401,
               "Failed to refresh access token", NoValue)
    ELSE Reply("refresh", encrypted_refresh_token, response, refresh_token, 0, "",
               <<response.access_token,
                 IF ~Falsy(response.refresh_token)
                 THEN Encrypt(None, response.refresh_token, iv)
                 ELSE encrypted_refresh_token,
                 FALSE>>)

\* response: the status and JSON body of Google's answer (status -1: none came);
\* iv: the random part of the new Fernet token
refresh_access_token(service, encrypted_refresh_token, response, iv) ==
    LET refresh_token == Decrypt(service.encryption_key, encrypted_refresh_token) IN
    IF refresh_token = None
    THEN Reply("refresh", encrypted_refresh_token, response, None, 401, "Invalid refresh token", NoValue)
    ELSE IF response.status = -1
    THEN Reply("refresh", encrypted_refresh_token, response, refresh_token, -1, "httpx.TransportError",
               NoValue)
    ELSE IF response.status # 200
    THEN Reply("refresh", encrypted_refresh_token, response, refresh_token, 401,
               "Failed to refresh access token", NoValue)
    ELSE Reply("refresh", encrypted_refresh_token, response, refresh_token, 0, "",
               <<response.access_token,
                 IF ~Falsy(response.refresh_token)
                 THEN Encrypt(service.encryption_key, response.refresh_token, iv)
                 ELSE encrypted_refresh_token,
                 FALSE>>)

revoke_token(service, encrypted_refresh_token, response) ==
    LET refresh_token == Decrypt(service.encryption_key, encrypted_refresh_token) IN
    IF refresh_token = None
    THEN Reply("revoke", encrypted_refresh_token, response, None, 0, "", NoValue)
    ELSE IF response.status = -1
    THEN Reply("revoke", encrypted_refresh_token, response, refresh_token, -1, "httpx.TransportError",
               NoValue)
    ELSE Reply("revoke", encrypted_refresh_token, response, refresh_token, 0, "",
               <<None, Encrypt(None, None, 0), response.status = 200>>)

(***************************************************************************)
(* routes/google_auth.py: the popup-flow routes.  A header value is a text *)
(* or None (the header is not sent); urllib.parse.urlparse is followed     *)
(* character by character.                                                 *)
(***************************************************************************)
\* the texts "http", "HTTP", "://", "localhost", "evil.io", ":3000", "/x", "?q",
\* "null", "xmlhttprequest", "XMLHttpRequest" and "fetch"
Words ==
    [http |-> <<104, 116, 116, 112>>,
     HTTP |-> <<72, 84, 84, 80>>,
     sep |-> <<58, 47, 47>>,
     localhost |-> <<108, 111, 99, 97, 108, 104, 111, 115, 116>>,
     evil |-> <<101, 118, 105, 108, 46, 105, 111>>,
     port |-> <<58, 51, 48, 48, 48>>,
     path |-> <<47, 120>>,
     query |-> <<63, 113>>,
     null |-> <<110, 117, 108, 108>>,
     xmlhttprequest |-> <<120, 109, 108, 104, 116, 116, 112, 114, 101, 113, 117, 101, 115, 116>>,
     XMLHttpRequest |-> <<88, 77, 76, 72, 116, 116, 112, 82, 101, 113, 117, 101, 115, 116>>,
     fetch |-> <<102, 101, 116, 99, 104>>]

\* the URLs a client writes into Origin or Referer, and the values of the two
\* headers: not sent, empty, "null" (an opaque origin) or a URL
Urls ==
    [scheme : {Words.http, Words.HTTP}, host : {Words.localhost, Words.evil},
     port : {<< >>, Words.port}, path : {<< >>, Words.path, Words.query}]
UrlText(u) == u.scheme \o Words.sep \o u.host \o u.port \o u.path
HeaderValues == {None, << >>, Words.null} \cup {UrlText(u) : u \in Urls}

Range(list) == {list[i] : i \in 1..Len(list)}

\* the first position from start on where text holds one of chars, or
\* Len(text) + 1 (str.find giving -1)
Find(text, chars, start) ==
    LET hits == {i \in start..Len(text) : text[i] \in chars} IN
    IF hits = {} THEN Len(text) + 1 ELSE CHOOSE i \in hits : \A j \in hits : i <= j

\* urllib.parse.urlparse: the scheme is the text before the first ":", if it
\* starts with a letter and holds scheme characters only, in lower case; the
\* netloc is what follows "//" up to the first "/", "?" or "#", as written.
urlparse(url) ==
    LET Letters == (65..90) \cup (97..122)
        SchemeChars == Letters \cup (48..57) \cup {43, 45, 46}
        colon == Find(url, {58}, 1)
        hasScheme == /\ colon <= Len(url) /\ colon > 1
                     /\ url[1] \in Letters
                     /\ \A i \in 1..(colon - 1) : url[i] \in SchemeChars
        rest == IF hasScheme THEN SubSeq(url, colon + 1, Len(url)) ELSE url
        hasNetloc == Len(rest) >= 2 /\ rest[1] = 47 /\ rest[2] = 47
    IN [scheme |-> IF hasScheme THEN LowerText(SubSeq(url, 1, colon - 1)) ELSE << >>,
        netloc |-> IF hasNetloc THEN SubSeq(rest, 3, Find(rest, {47, 63, 35}, 3) - 1) ELSE << >>]

\* _verify_origin reading Referer before Origin
_verify_origin_RefererFirst(headers, allowed_origins) ==
    LET origin == OrElse(headers.referer, headers.origin) IN
    IF Falsy(origin) THEN Raise(403, "Missing origin information")
    ELSE LET parsed == urlparse(origin)
             origin_base == parsed.scheme \o Words.sep \o parsed.netloc IN
         IF origin_base \notin Range(allowed_origins) THEN Raise(403, "Origin not allowed")
         ELSE Return(origin_base)

_verify_origin(headers, allowed_origins) ==
    LET origin == OrElse(headers.origin, headers.referer) IN
    IF Falsy(origin) THEN Raise(403, "Missing origin information")
    ELSE LET parsed == urlparse(origin)
             origin_base == parsed.scheme \o Words.sep \o parsed.netloc IN
         IF origin_base \notin Range(allowed_origins) THEN Raise(403, "Origin not allowed")
         ELSE Return(origin_base)

_verify_csrf_header(x_requested_with) ==
    IF Falsy(x_requested_with) \/ LowerText(x_requested_with) # Words.xmlhttprequest
    THEN Raise(403, "Missing required security header")
    ELSE Return(None)

\* str.split(sep) and str.strip()
RECURSIVE Split(_, _)
Split(text, sep) ==
    LET cut == Find(text, {sep}, 1) IN
    IF cut > Len(text) THEN <<text>>
    ELSE <<SubSeq(text, 1, cut - 1)>> \o Split(SubSeq(text, cut + 1, Len(text)), sep)

Strip(text) ==
    LET Whitespace == {9, 10, 11, 12, 13, 32}
        kept == {i \in 1..Len(text) : text[i] \notin Whitespace} IN
    IF kept = {} THEN << >>
    ELSE SubSeq(text, CHOOSE i \in kept : \A j \in kept : i <= j,
                CHOOSE i \in kept : \A j \in kept : i >= j)

\* AuthConfig.cors_origins as AuthConfig() makes it: "http://localhost:3000",
\* "http://127.0.0.1:5173" and "http://localhost:8080"
cors_origins ==
    <<Words.http \o Words.sep \o Words.localhost \o Words.port,
      Words.http \o Words.sep \o <<49, 50, 55, 46, 48, 46, 48, 46, 49>> \o <<58, 53, 49, 55, 51>>,
      Words.http \o Words.sep \o Words.localhost \o <<58, 56, 48, 56, 48>> >>

_get_allowed_origins(env) ==
    LET origins == cors_origins
                    \o (IF Falsy(env.APP_CORS_ORIGINS) THEN << >>
                        ELSE Split(env.APP_CORS_ORIGINS, 44))
        chosen == IF origins = << >>
                  THEN <<cors_origins[2], cors_origins[1]>>
                  ELSE origins
    IN [i \in 1..Len(chosen) |-> Strip(chosen[i])]

\* the texts "google", "Google", "github", "{provider}", "/auth/callback",
\* "/auth/", "/callback", "/cb", "user" and "free"
Literals ==
    [google |-> <<103, 111, 111, 103, 108, 101>>,
     Google |-> <<71, 111, 111, 103, 108, 101>>,
     github |-> <<103, 105, 116, 104, 117, 98>>,
     placeholder |-> <<123, 112, 114, 111, 118, 105, 100, 101, 114, 125>>,
     auth_callback |-> <<47, 97, 117, 116, 104, 47, 99, 97, 108, 108, 98, 97, 99, 107>>,
     auth |-> <<47, 97, 117, 116, 104, 47>>,
     callback |-> <<47, 99, 97, 108, 108, 98, 97, 99, 107>>,
     cb |-> <<47, 99, 98>>,
     user |-> <<117, 115, 101, 114>>,
     free |-> <<102, 114, 101, 101>>]

\* AuthConfig.oauth_redirect_uri as the class declares it:
\* "http://127.0.0.1:5173/auth/callback"
oauth_redirect_uri == cors_origins[2] \o Literals.auth_callback

\* JWTConfig.secret_key and JWTConfig.access_token_expire_minutes as the class
\* declares them
secret_key == "your-secret-key-here-change-in-production"
access_token_expire_minutes == 15

\* JWTConfig.audience and JWTConfig.issuer as the class declares them
JWTConfig_audience == "webapp-factory-app"
JWTConfig_issuer == "webapp-factory-api"

\* _create_app_session: the session JWT of the popup flow.  The ID tokens
\* carry no name and no picture, and email_verified is left out.
_create_app_session(user_info, t) ==
    JwtEncode(
        [sub |-> user_info.id, email |-> user_info.email, name |-> None, picture |-> None,
         provider |-> Literals.google, orgId |-> Absent,
         roles |-> <<Literals.user>>, plan |-> Literals.free, features |-> << >>,
         iat |-> IntTimestamp(t),
         exp |-> IntTimestamp(t) + access_token_expire_minutes * SecsPerMinute,
         aud |-> JWTConfig_audience, iss |-> JWTConfig_issuer],
        secret_key)

\* the cookie name of _get_cookie_config
_get_cookie_config(env) ==
    IF env.ENV = EnvNames.production THEN "__Host-session" ELSE "session"

\* the process environments of the routes; APP_CORS_ORIGINS, when set, is
\* "http://localhost, http://evil.io:3000"
RouteEnvirons ==
    [ENV : {EnvNames.production, EnvNames.development}, APP_REFRESH_TOKEN_KEY : {Ch(75)},
     APP_GOOGLE_CLIENT_ID : {None, Ch(99)}, APP_GOOGLE_CLIENT_SECRET : {Ch(115)},
     APP_CORS_ORIGINS : {None, Words.http \o Words.sep \o Words.localhost \o <<44, 32>>
                                  \o Words.http \o Words.sep \o Words.evil \o Words.port}]

\* what a step of the service gives: its result, the requests it sent to
\* Google, and the service with its cache as the step left it
Step(res, calls, service) == [res |-> res, calls |-> calls, service |-> service]

\* a request sent to the provider: the endpoint and what the request carries
Call(url, data) == [url |-> url, data |-> data]
Endpoints(calls) == [i \in 1..Len(calls) |-> calls[i].url]

\* _get_jwks run without interleaving; google.jwks is the status Google answers
_get_jwks(service, google, t) ==
    IF CacheValid(service, t) THEN Step(Return(service._jwks_cache), << >>, service)
    ELSE IF google.jwks # 200
    THEN Step(Raise(500, "Failed to fetch Google public keys"), <<Call("jwks", None)>>, service)
    ELSE Step(Return(KeySet(1)), <<Call("jwks", None)>>,
              [service EXCEPT !._jwks_cache = KeySet(1), !._jwks_cache_time = t])

\* GoogleOAuthService.exchange_code; google.status (-1: none came),
\* google.access_token and google.id_token are Google's answer to the token
\* request.  The result is the user_info of the ID token.
exchange_code(service, code, redirect_uri, state, google, expected_domain, t) ==
    LET token_data == [code |-> code, client_id |-> service.client_id,
                       client_secret |-> service.client_secret,
                       redirect_uri |-> redirect_uri, grant_type |-> "authorization_code"]
        posted == <<Call("token", token_data)>> IN
    IF google.status = -1
    THEN Step(Raise(500, "httpx.TransportError"), posted, service)
    ELSE IF google.status # 200
    THEN Step(Raise(400, "Failed to exchange authorization code"), posted, service)
    ELSE IF Falsy(google.access_token)
    THEN Step(Raise(400, "Missing required tokens in response"), posted, service)
    ELSE LET jwks == _get_jwks(service, google, t) IN
         IF ~jwks.res.ok THEN Step(jwks.res, posted \o jwks.calls, service)
         ELSE Step(verify_id_token(jwks.res.claims, google.id_token, service.client_id,
                                   expected_domain, t),
                   posted \o jwks.calls, jwks.service)

\* what Google answers while a route runs
GoogleAnswers ==
    [status : {200}, access_token : {None, Ch(65)}, refresh_token : {Ch(50)},
     id_token : {CHOOSE id_token \in IdTokens : id_token.kid = 2 /\ id_token.aud = Ch(99)},
     jwks : {200, 503}]
        \cup [status : {400, -1}, access_token : {None}, refresh_token : {None},
              id_token : {CHOOSE id_token \in IdTokens : id_token.kid = 0}, jwks : {200}]

\* an HTTP request to a route: its headers, whether its JSON body has the
\* fields the route requires, the refresh token in it, and whether it
\* carries a session cookie that get_current_user accepts
NoRequest ==
    [route |-> "none", origin |-> None, referer |-> None, x_requested_with |-> None,
     body |-> FALSE, refresh_token |-> Encrypt(None, None, 0), user |-> FALSE,
     allowed_origins |-> << >>,
     provider |-> None, code |-> None, state |-> None, redirect_uri |-> None]

\* the answer of a route: status and detail, the origin it verified, the
\* cookie it set and the cookie it cleared ("": none), the tokens in its
\* body, and the requests it sent to Google
NoResponse ==
    [status |-> 0, detail |-> "", origin |-> None, set_cookie |-> "", delete_cookie |-> "",
     cookie |-> EmptyToken, access_token |-> None, refresh_token |-> Encrypt(None, None, 0), calls |-> << >>]

Failed(res) == [NoResponse EXCEPT !.status = res.status, !.detail = res.detail]

\* the cookies the routes set and read, and a browser that holds none
CookieNames == {"session", "__Host-session"}
NoCookies == [name \in CookieNames |-> EmptyToken]

\* Optional[int]: None is the empty sequence, the integer n is <<n>>
NoInt == << >>
IntOf(n) == <<n>>

\* the plans "pro" and "enterprise", and the plan references
\* "price_pro_monthly", "price_enterprise_monthly" and an order id "222333444"
Plans == [pro |-> <<112, 114, 111>>, enterprise |-> <<101, 110, 116>>]
PlanReferences == [price_pro_monthly |-> <<112, 112, 109>>,
                   price_enterprise_monthly |-> <<112, 101, 109>>,
                   order |-> <<50, 50, 50>>]

\* the user ids: the stored user of the tests, and one nobody stored
UserIds == {"user-42", "user-7"}

\* what repo.get returns for a user that is not stored, and an empty store
NoUser == [stored |-> FALSE, plan |-> None, credits |-> NoInt]
NoUsers == [id \in UserIds |-> NoUser]

\* BillingEvent with its defaults, and the coroutines before any event came
NoEvent ==
    [user_id |-> "user-42", plan |-> None, plan_reference |-> None,
     credits |-> NoInt, credit_delta |-> NoInt]
MaxJobs == 2
NoJobs ==
    [j \in 1..MaxJobs |-> [pc |-> "idle", event |-> NoEvent, existing |-> NoUser, handled |-> FALSE]]

\* Depends(get_google_oauth_service)
get_google_oauth_service(service, env, generated) ==
    IF service = NoService THEN GoogleOAuthService(env, generated) ELSE Return(service)

\* the preamble of a route that does not look at X-Requested-With
Preamble_NoCsrfCheck(req, env, service, generated, needs_body) ==
    LET google_oauth == get_google_oauth_service(service, env, generated) IN
    IF ~google_oauth.ok THEN Step(google_oauth, << >>, service)
    ELSE IF needs_body /\ ~req.body
    THEN Step(Raise(422, "RequestValidationError"), << >>, google_oauth.claims)
    ELSE Step(_verify_origin(req, _get_allowed_origins(env)), << >>, google_oauth.claims)

\* what happens before the work of a route: FastAPI resolves the service
\* dependency and validates the parameters, then the body of the route checks
\* the sentinel header and the origin.  The result is the first failure, or
\* the verified origin.
Preamble(req, env, service, generated, needs_body) ==
    LET google_oauth == get_google_oauth_service(service, env, generated) IN
    IF ~google_oauth.ok THEN Step(google_oauth, << >>, service)
    ELSE IF needs_body /\ ~req.body
    THEN Step(Raise(422, "RequestValidationError"), << >>, google_oauth.claims)
    ELSE IF ~_verify_csrf_header(req.x_requested_with).ok
    THEN Step(_verify_csrf_header(req.x_requested_with), << >>, google_oauth.claims)
    ELSE Step(_verify_origin(req, _get_allowed_origins(env)), << >>, google_oauth.claims)

exchange_google_code(req, env, service, generated, google, t) ==
    LET pre == Preamble(req, env, service, generated, TRUE) IN
    IF ~pre.res.ok THEN Step(Failed(pre.res), << >>, pre.service)
    ELSE LET redirect_uri == OrElse(req.redirect_uri, pre.res.claims)
             done == exchange_code(pre.service, req.code, redirect_uri, req.state, google,
                                   None, t) IN
         IF ~done.res.ok
         THEN Step([Failed(done.res) EXCEPT !.origin = pre.res.claims,
                                              !.calls = done.calls],
                   << >>, done.service)
         ELSE Step([NoResponse EXCEPT !.status = 200, !.origin = pre.res.claims,
                                      !.set_cookie = _get_cookie_config(env),
                                      !.cookie = _create_app_session(done.res.claims, t),
                                      !.calls = done.calls],
                   << >>, done.service)

\* an exception that is no HTTPException leaves the route as a 500
Status(raised) == IF raised = 0 THEN 200 ELSE IF raised = -1 THEN 500 ELSE raised

refresh_google_token(req, env, service, generated, google, iv) ==
    LET pre == Preamble(req, env, service, generated, TRUE) IN
    IF ~pre.res.ok THEN Step(Failed(pre.res), << >>, pre.service)
    ELSE LET done == refresh_access_token(pre.service, req.refresh_token, google, iv) IN
         Step([NoResponse EXCEPT !.status = Status(done.raised), !.detail = done.detail,
                                 !.origin = pre.res.claims,
                                 !.access_token = done.access_token,
                                 !.refresh_token = done.refresh_token,
                                 !.calls = IF done.posted = None THEN << >>
                                           ELSE <<Call("token", done.posted)>>],
              << >>, pre.service)

\* revoke_google_token: the revocation at Google is left undone (lines
\* 374-379), the cookie is cleared whether or not a user is signed in
revoke_google_token(req, env, service, generated) ==
    LET pre == Preamble(req, env, service, generated, FALSE) IN
    IF ~pre.res.ok THEN Step(Failed(pre.res), << >>, pre.service)
    ELSE Step([NoResponse EXCEPT !.status = 200, !.origin = pre.res.claims,
                                 !.delete_cookie = _get_cookie_config(env)],
              << >>, pre.service)

(***************************************************************************)
(* services/auth_service.py: the redirect flow.  settings.auth_config is   *)
(* the AuthConfig() that Settings.__init__ loads, a pydantic BaseModel     *)
(* that reads no environment variable.                                     *)
(***************************************************************************)
\* the process environments of the redirect flow; auth_oauth_redirect_uri is
\* the value the application has assigned to settings.auth_config, None when
\* it has assigned none.  The URIs are "http://localhost/{provider}/cb",
\* "http://localhost/auth/callback", "http://localhost/" and
\* "http://localhost/cb".
SessionEnvirons ==
    LET site == Words.http \o Words.sep \o Words.localhost IN
    [APP_OAUTH_REDIRECT_URI_TEMPLATE : {None, << >>, site \o <<47>> \o Literals.placeholder \o Literals.cb},
     APP_OAUTH_REDIRECT_URI : {None, site \o Literals.auth_callback, site \o <<47>>},
     auth_oauth_redirect_uri : {None, site \o Literals.cb},
     APP_GOOGLE_CLIENT_ID : {None, Ch(99)}, APP_GOOGLE_CLIENT_SECRET : {Ch(115)}]

\* sub in text, text.endswith(suffix), text.replace(old, new), text.rstrip(ch)
Contains(text, sub) ==
    \E i \in 1..(Len(text) - Len(sub) + 1) : SubSeq(text, i, i + Len(sub) - 1) = sub
EndsWith(text, suffix) ==
    Len(text) >= Len(suffix) /\ SubSeq(text, Len(text) - Len(suffix) + 1, Len(text)) = suffix
RECURSIVE Replace(_, _, _)
Replace(text, old, new) ==
    IF ~Contains(text, old) THEN text
    ELSE LET at == CHOOSE i \in 1..(Len(text) - Len(old) + 1) :
                       /\ SubSeq(text, i, i + Len(old) - 1) = old
                       /\ \A j \in 1..(i - 1) : SubSeq(text, j, j + Len(old) - 1) # old
         IN SubSeq(text, 1, at - 1) \o new
                \o Replace(SubSeq(text, at + Len(old), Len(text)), old, new)
RECURSIVE RStrip(_, _)
RStrip(text, ch) ==
    IF text # << >> /\ text[Len(text)] = ch THEN RStrip(SubSeq(text, 1, Len(text) - 1), ch)
    ELSE text

\* Settings.OAUTH_REDIRECT_URI: _auth_config is always there
OAUTH_REDIRECT_URI(env) ==
    IF env.auth_oauth_redirect_uri = None THEN oauth_redirect_uri
    ELSE env.auth_oauth_redirect_uri

\* str.format is followed for the field {provider} only: a brace left over
\* after it makes format raise
_get_redirect_uri(provider_name, env) ==
    LET template == OrElse(env.APP_OAUTH_REDIRECT_URI_TEMPLATE,
                           OrElse(env.APP_OAUTH_REDIRECT_URI, OAUTH_REDIRECT_URI(env)))
        segment == Literals.auth \o provider_name \o Literals.callback IN
    IF Falsy(template) THEN Raise(500, "OAuth redirect URI is not configured")
    ELSE IF Contains(template, Literals.placeholder)
    THEN LET formatted == Replace(template, Literals.placeholder, provider_name) IN
         IF \E i \in 1..Len(formatted) : formatted[i] \in {123, 125}
         THEN Raise(500, "Invalid APP_OAUTH_REDIRECT_URI_TEMPLATE format")
         ELSE Return(formatted)
    ELSE IF EndsWith(template, Literals.auth_callback)
    THEN Return(Replace(template, Literals.auth_callback, segment))
    ELSE IF EndsWith(template, <<47>>) THEN Return(RStrip(template, 47) \o segment)
    ELSE Return(template)

\* get_provider and OAuthProvider.get_credentials
get_provider(provider_name, env) ==
    IF LowerText(provider_name) # Literals.google THEN Raise(400, "Unknown OAuth provider")
    ELSE IF Falsy(env.APP_GOOGLE_CLIENT_ID) \/ Falsy(env.APP_GOOGLE_CLIENT_SECRET)
    THEN Raise(500, "Google OAuth is not configured")
    ELSE Return(env.APP_GOOGLE_CLIENT_ID)

\* what the provider answers to the token request and to the user-info request
ProviderAnswers ==
    [status : {200}, access_token : {None, Ch(65)}, user_status : {200, 401},
     id : {Ch(117)}, email : EmailValues]
        \cup [status : {400, -1}, access_token : {None}, user_status : {200},
              id : {Ch(117)}, email : {None}]

\* exchange_code asking for the user info whatever the token answer holds
session_exchange_code_NoTokenCheck(provider_name, code, state, env, provider, t) ==
    LET credentials == get_provider(provider_name, env)
        redirect_uri == _get_redirect_uri(provider_name, env)
        token_data == [code |-> code, client_id |-> env.APP_GOOGLE_CLIENT_ID,
                       client_secret |-> env.APP_GOOGLE_CLIENT_SECRET,
                       redirect_uri |-> redirect_uri.claims,
                       grant_type |-> "authorization_code"]
        posted == <<Call("token", token_data)>>
        fetched == posted \o <<Call("userinfo", provider.access_token)>> IN
    IF ~credentials.ok THEN Step(credentials, << >>, NoService)
    ELSE IF ~redirect_uri.ok THEN Step(redirect_uri, << >>, NoService)
    ELSE IF provider.status = -1
    THEN Step(Raise(500, "httpx.TransportError"), posted, NoService)
    ELSE IF provider.status # 200
    THEN Step(Raise(400, "Failed to exchange code for token"), posted, NoService)
    ELSE IF provider.user_status # 200
    THEN Step(Raise(400, "Failed to get user info"), fetched, NoService)
    ELSE Step(Return(JwtEncode(
                [sub |-> provider.id, email |-> provider.email, name |-> None,
                 picture |-> None, provider |-> provider_name, orgId |-> Absent,
                 roles |-> <<Literals.user>>, plan |-> Literals.free, features |-> << >>,
                 iat |-> IntTimestamp(t),
                 exp |-> IntTimestamp(t) + access_token_expire_minutes * SecsPerMinute,
                 aud |-> "", iss |-> ""],
                secret_key)),
              fetched, NoService)

\* exchange_code sending the state along with the code
session_exchange_code_SendsState(provider_name, code, state, env, provider, t) ==
    LET credentials == get_provider(provider_name, env)
        redirect_uri == _get_redirect_uri(provider_name, env)
        token_data == [code |-> code, client_id |-> env.APP_GOOGLE_CLIENT_ID,
                       client_secret |-> env.APP_GOOGLE_CLIENT_SECRET,
                       redirect_uri |-> redirect_uri.claims,
                       grant_type |-> "authorization_code", state |-> state]
        posted == <<Call("token", token_data)>>
        fetched == posted \o <<Call("userinfo", provider.access_token)>> IN
    IF ~credentials.ok THEN Step(credentials, << >>, NoService)
    ELSE IF ~redirect_uri.ok THEN Step(redirect_uri, << >>, NoService)
    ELSE IF provider.status = -1
    THEN Step(Raise(500, "httpx.TransportError"), posted, NoService)
    ELSE IF provider.status # 200
    THEN Step(Raise(400, "Failed to exchange code for token"), posted, NoService)
    ELSE IF Falsy(provider.access_token)
    THEN Step(Raise(400, "No access token received"), posted, NoService)
    ELSE IF provider.user_status # 200
    THEN Step(Raise(400, "Failed to get user info"), fetched, NoService)
    ELSE Step(Return(JwtEncode(
                [sub |-> provider.id, email |-> provider.email, name |-> None,
                 picture |-> None, provider |-> provider_name, orgId |-> Absent,
                 roles |-> <<Literals.user>>, plan |-> Literals.free, features |-> << >>,
                 iat |-> IntTimestamp(t),
                 exp |-> IntTimestamp(t) + access_token_expire_minutes * SecsPerMinute,
                 aud |-> "", iss |-> ""],
                secret_key)),
              fetched, NoService)

\* auth_service.exchange_code: the requests it sends and the session token,
\* whose payload has the keys sub, email, name, picture, provider, roles,
\* plan, iat and exp (orgId Absent and aud, iss "": the payload has no such
\* key).  provider.status is the status of the token answer (-1: none came)
\* and provider.user_status that of the user-info answer.
session_exchange_code(provider_name, code, state, env, provider, t) ==
    LET credentials == get_provider(provider_name, env)
        redirect_uri == _get_redirect_uri(provider_name, env)
        token_data == [code |-> code, client_id |-> env.APP_GOOGLE_CLIENT_ID,
                       client_secret |-> env.APP_GOOGLE_CLIENT_SECRET,
                       redirect_uri |-> redirect_uri.claims,
                       grant_type |-> "authorization_code"]
        posted == <<Call("token", token_data)>>
        fetched == posted \o <<Call("userinfo", provider.access_token)>> IN
    IF ~credentials.ok THEN Step(credentials, << >>, NoService)
    ELSE IF ~redirect_uri.ok THEN Step(redirect_uri, << >>, NoService)
    ELSE IF provider.status = -1
    THEN Step(Raise(500, "httpx.TransportError"), posted, NoService)
    ELSE IF provider.status # 200
    THEN Step(Raise(400, "Failed to exchange code for token"), posted, NoService)
    ELSE IF Falsy(provider.access_token)
    THEN Step(Raise(400, "No access token received"), posted, NoService)
    ELSE IF provider.user_status # 200
    THEN Step(Raise(400, "Failed to get user info"), fetched, NoService)
    ELSE Step(Return(JwtEncode(
                [sub |-> provider.id, email |-> provider.email, name |-> None,
                 picture |-> None, provider |-> provider_name, orgId |-> Absent,
                 roles |-> <<Literals.user>>, plan |-> Literals.free, features |-> << >>,
                 iat |-> IntTimestamp(t),
                 exp |-> IntTimestamp(t) + access_token_expire_minutes * SecsPerMinute,
                 aud |-> "", iss |-> ""],
                secret_key)),
              fetched, NoService)

(***************************************************************************)
(* The service as a state machine: coroutines verify ID tokens against the *)
(* cached JWKS while Google rotates its keys and the clock advances;       *)
(* refresh tokens are refreshed and revoked.                               *)
(***************************************************************************)
\* the state in which nothing of the service has happened yet; stamp is the
\* last JWKS request that Google answered with keys
IdleOAuth ==
    [environ |-> [ENV |-> EnvNames.development, APP_REFRESH_TOKEN_KEY |-> Ch(75),
                  APP_GOOGLE_CLIENT_ID |-> Ch(99), APP_GOOGLE_CLIENT_SECRET |-> Ch(115)],
     task |-> [pc |-> "idle", started |-> 0],
     net |-> [version |-> 1, requests |-> 0, overlapped |-> FALSE,
              stamp |-> [at |-> -1, json |-> {}, requests |-> 0]],
     reply |-> Reply("none", Encrypt(None, None, 0),
                     [status |-> 0, access_token |-> None, refresh_token |-> None],
                     None, 0, "", NoValue)]

(***************************************************************************)
(* The guards as a state machine: one guard call per step.                 *)
(***************************************************************************)
MaxGuards == 2      \* the number of guards handed to combine_guards

\* the texts "A", "a", "b" and "Ab"
UpA == <<65>>
LoA == <<97>>
LoB == <<98>>
MixedAb == <<65, 98>>
NameLists == {<<LoA>>, <<MixedAb, LoB>>, << << >> >>}

GuardClaims ==
    [sub : {Ch(117)}, email : {None}, orgId : {None, << >>, LoA, NoneText},
     roles : {<< >>, <<UpA>>, <<LoB, LoA>>}, plan : {None, << >>, UpA, LoB},
     features : {<< >>, <<UpA>>}]

OrgParams == {None, << >>, LoA, UpA, NoneText}

Guards ==
    [kind : {"roles"}, names : {<<LoA>>, <<MixedAb, LoB>>}]
        \cup [kind : {"plan"}, names : {<<LoA>>, << << >> >>}]
        \cup [kind : {"feature"}, names : {<<LoA>>}]
        \cup [kind : {"org", "authenticated"}, names : {<< >>}]

\* the service functions called: one returns, one raises
ServiceCalls == {[body |-> "returns", user_id |-> LoA], [body |-> "raises", user_id |-> LoB]}

GuardStacks == UNION {[1..n -> Guards] : n \in 0..MaxGuards}

\* the claims of the token a dependency is handed in a header
BearerInput == [NoInput EXCEPT !.sub = Ch(117), !.orgId = LoA]

\* what a dependency can be handed: claims, or an Authorization header
DepArgs ==
    [isStr : {FALSE}, authorization : {[scheme |-> "absent", token |-> EmptyToken]},
     claims : GuardClaims]
        \cup [isStr : {TRUE},
              authorization : {[scheme |-> "absent", token |-> EmptyToken],
                               [scheme |-> "bearer", token |-> MalformedToken],
                               [scheme |-> "bearer",
                                token |-> sign_access_jwt(BearerInput, 1, 0)]},
              claims : {NoClaims}]

NoArg == [isStr |-> FALSE, authorization |-> [scheme |-> "absent", token |-> EmptyToken],
          claims |-> NoClaims]
NoCall == [api |-> "none", guards |-> << >>, arg |-> NoArg, org |-> None, query |-> None,
           body |-> "none", user_id |-> None]
NoOutcome == Deny(0, "", << >>)
NoFailure == [detail |-> "", status |-> 0]

Failure(o) == IF o.ok THEN NoFailure ELSE [detail |-> o.detail, status |-> o.status]

InitGuard ==
    /\ now = 0
    /\ issued = EmptyToken
    /\ minted = NotMinted
    /\ token = EmptyToken
    /\ result = Idle
    /\ call = NoCall
    /\ outcome = NoOutcome
    /\ previous = NoFailure
    /\ environ = IdleOAuth.environ
    /\ svc = NoService
    /\ tasks = [t \in 1..MaxTasks |-> IdleOAuth.task]
    /\ net = IdleOAuth.net
    /\ reply = IdleOAuth.reply
    /\ request = NoRequest /\ served = NoResponse
    /\ cookies = NoCookies /\ users = NoUsers /\ jobs = NoJobs

\* One call is in progress at a time.
Calling(api, guards, arg, org_id, query) ==
    [api |-> api, guards |-> guards, arg |-> arg, org |-> org_id, query |-> query,
     body |-> "none", user_id |-> None]
WithClaims(claims) == [NoArg EXCEPT !.claims = claims]
Answer(claims, answer) == [Pass(claims) EXCEPT !.ok = answer]

RequireRoles ==
    /\ call = NoCall
    /\ \E allowed \in NameLists, arg \in DepArgs :
        /\ call' = Calling("require_roles", <<[kind |-> "roles", names |-> allowed]>>,
                           arg, None, None)
        /\ outcome' = require_roles(allowed, arg, now)
    /\ UNCHANGED <<previous, jwtVars>>

RequirePlan ==
    /\ call = NoCall
    /\ \E plans \in NameLists, arg \in DepArgs :
        /\ call' = Calling("require_plan", <<[kind |-> "plan", names |-> plans]>>,
                           arg, None, None)
        /\ outcome' = require_plan(plans, arg, now)
    /\ UNCHANGED <<previous, jwtVars>>

RequireFeature ==
    /\ call = NoCall
    /\ \E flag \in {LoA, MixedAb}, arg \in DepArgs :
        /\ call' = Calling("require_feature", <<[kind |-> "feature", names |-> <<flag>>]>>,
                           arg, None, None)
        /\ outcome' = require_feature(flag, arg, now)
    /\ UNCHANGED <<previous, jwtVars>>

RequireOrg ==
    /\ call = NoCall
    /\ \E arg \in DepArgs, path \in {None, << >>, LoA}, query \in OrgParams :
        /\ call' = Calling("require_org", <<[kind |-> "org", names |-> << >>]>>,
                           arg, path, query)
        /\ outcome' = require_org(arg, path, query, now)
    /\ UNCHANGED <<previous, jwtVars>>

HasRole ==
    /\ call = NoCall
    /\ \E claims \in GuardClaims, role \in {LoA, UpA, MixedAb} :
        /\ call' = Calling("has_role", <<[kind |-> "roles", names |-> <<role>>]>>,
                           WithClaims(claims), None, None)
        /\ outcome' = Answer(claims, has_role(claims, role))
    /\ previous' = NoFailure
    /\ UNCHANGED jwtVars

HasAnyRole ==
    /\ call = NoCall
    /\ \E claims \in GuardClaims, roles \in NameLists \cup {<< >>} :
        /\ call' = Calling("has_any_role", <<[kind |-> "roles", names |-> roles]>>,
                           WithClaims(claims), None, None)
        /\ outcome' = Answer(claims, has_any_role(claims, roles))
    /\ previous' = NoFailure
    /\ UNCHANGED jwtVars

HasPlan ==
    /\ call = NoCall
    /\ \E claims \in GuardClaims, plans \in NameLists \cup {<< >>} :
        /\ call' = Calling("has_plan", <<[kind |-> "plan", names |-> plans]>>,
                           WithClaims(claims), None, None)
        /\ outcome' = Answer(claims, has_plan(claims, plans))
    /\ previous' = NoFailure
    /\ UNCHANGED jwtVars

HasFeature ==
    /\ call = NoCall
    /\ \E claims \in GuardClaims, feature \in {LoA, UpA, MixedAb} :
        /\ call' = Calling("has_feature", <<[kind |-> "feature", names |-> <<feature>>]>>,
                           WithClaims(claims), None, None)
        /\ outcome' = Answer(claims, has_feature(claims, feature))
    /\ previous' = NoFailure
    /\ UNCHANGED jwtVars

BelongsToOrg ==
    /\ call = NoCall
    /\ \E claims \in GuardClaims, org_id \in OrgParams :
        /\ call' = Calling("belongs_to_org", <<[kind |-> "org", names |-> << >>]>>,
                           WithClaims(claims), org_id, None)
        /\ outcome' = Answer(claims, belongs_to_org(claims, org_id))
    /\ previous' = NoFailure
    /\ UNCHANGED jwtVars

\* a function wrapped by combine_guards(*guards) is called with or without claims
CallGuarded ==
    /\ call = NoCall
    /\ \E guards \in GuardStacks, claims \in GuardClaims \cup {NoClaims},
          org_id \in {None, << >>, LoA}, service \in ServiceCalls :
        /\ call' = [Calling("combine_guards", guards, WithClaims(claims), org_id, None)
                        EXCEPT !.body = service.body, !.user_id = service.user_id]
        /\ outcome' = CallWrapped(combine_guards(guards), service.body,
                                  Kwargs(claims, org_id, service.user_id), << >>)
    /\ previous' = NoFailure
    /\ UNCHANGED jwtVars

\* The caller has its answer; it remembers the failure of a dependency.
Deliver ==
    /\ call # NoCall
    /\ previous' = IF call.api \in {"require_roles", "require_plan", "require_feature",
                                   "require_org"}
                   THEN Failure(outcome) ELSE NoFailure
    /\ call' = NoCall
    /\ outcome' = NoOutcome
    /\ UNCHANGED jwtVars

NextGuard ==
    \/ Deliver
    \/ RequireRoles
    \/ RequirePlan
    \/ RequireFeature
    \/ RequireOrg
    \/ HasRole
    \/ HasAnyRole
    \/ HasPlan
    \/ HasFeature
    \/ BelongsToOrg
    \/ CallGuarded

SpecGuard == InitGuard /\ [][NextGuard]_vars

(***************************************************************************)
(* Properties of the guards.                                               *)
(***************************************************************************)
GivenClaims == ~call.arg.isStr /\ call.arg.claims # NoClaims
Names == call.guards[1].names
DependencyCall ==
    call.api \in {"require_roles", "require_plan", "require_feature", "require_org"}
OneGuard(kind) ==
    call.api = "combine_guards" /\ Len(call.guards) = 1 /\ call.guards[1].kind = kind

FailingGuards ==
    {i \in 1..Len(call.guards) :
        ~GuardCheck(call.guards[i], call.arg.claims, call.org).ok}
FirstFailing == CHOOSE i \in FailingGuards : \A j \in FailingGuards : i <= j

\* C6: a function wrapped by combine_guards(g1, ..., gn) evaluates the guards
\* in the order given and stops at the first that fails: the error is that
\* guard's, no later guard is evaluated and the function is not called.
C6_FirstFailureWins ==
    call.api = "combine_guards"
    => IF FailingGuards = {}
       THEN outcome.ok /\ outcome.called /\ outcome.evaluated = call.guards
       ELSE LET first == GuardCheck(call.guards[FirstFailing], call.arg.claims, call.org) IN
            /\ ~outcome.ok /\ ~outcome.called
            /\ outcome.detail = first.detail /\ outcome.names = first.names
            /\ outcome.evaluated = SubSeq(call.guards, 1, FirstFailing)

\* a role guard before a plan guard, on claims that fail both: the role error
C6_Witness ==
    /\ call.api = "combine_guards" /\ Len(call.guards) = 2 /\ GivenClaims
    /\ call.guards[1].kind = "roles" /\ call.guards[2].kind = "plan"
    /\ FailingGuards = {1, 2}
    /\ outcome.detail = "Insufficient role. Required"

PlanCheck == call.api \in {"require_plan", "has_plan"} \/ OneGuard("plan")

\* C7: claims whose plan is None never pass a plan guard, whatever plans it
\* allows, and any other plan passes exactly when its lower-cased value is
\* among the lower-cased allowed plans.
C7_NullPlanNeverPasses ==
    (PlanCheck /\ GivenClaims)
    => outcome.ok = (/\ call.arg.claims.plan # None
                     /\ LowerText(Str(call.arg.claims.plan)) \in LowerAll(Names))

\* Changing the letter case of texts.
Upper(c) == IF c \in 97..122 THEN c - 32 ELSE c
TextVariants(t) ==
    IF t = None THEN {None}
    ELSE {u \in [1..Len(t) -> {Lower(t[i]) : i \in 1..Len(t)} \cup {Upper(t[i]) : i \in 1..Len(t)}] :
            \A i \in 1..Len(t) : u[i] \in {Lower(t[i]), Upper(t[i])}}
ListVariants(list) ==
    {m \in [1..Len(list) -> UNION {TextVariants(list[i]) : i \in 1..Len(list)}] :
        \A i \in 1..Len(list) : m[i] \in TextVariants(list[i])}
ClaimsVariants(claims) ==
    {[claims EXCEPT !.roles = r, !.plan = p, !.features = f] :
        r \in ListVariants(claims.roles), p \in TextVariants(claims.plan),
        f \in ListVariants(claims.features)}

\* the decision of the check of the last call, on other names and claims
Decision(names, claims) ==
    CASE call.api = "require_roles" -> require_roles(names, WithClaims(claims), now).ok
      [] call.api = "require_plan" -> require_plan(names, WithClaims(claims), now).ok
      [] call.api = "require_feature" -> require_feature(names[1], WithClaims(claims), now).ok
      [] call.api = "has_role" -> has_role(claims, names[1])
      [] call.api = "has_any_role" -> has_any_role(claims, names)
      [] call.api = "has_plan" -> has_plan(claims, names)
      [] call.api = "has_feature" -> has_feature(claims, names[1])
      [] OTHER -> GuardCheck([kind |-> call.guards[1].kind, names |-> names], claims, None).ok

CaseCheck ==
    /\ GivenClaims
    /\ \/ call.api \in {"require_roles", "require_plan", "require_feature", "has_role",
                        "has_any_role", "has_plan", "has_feature"}
       \/ OneGuard("roles") \/ OneGuard("plan") \/ OneGuard("feature")
RoleCheck == call.api \in {"require_roles", "has_role", "has_any_role"} \/ OneGuard("roles")

\* C8: the decision of a role, plan or feature check is the same for every
\* change of letter case in the claims' values and in the required names,
\* and a role check passes exactly when the lower-cased roles of the claims
\* and the lower-cased allowed roles have an element in common.
C8_CaseInsensitive ==
    CaseCheck
    => /\ \A names \in ListVariants(Names), claims \in ClaimsVariants(call.arg.claims) :
            Decision(names, claims) = outcome.ok
       /\ RoleCheck
          => outcome.ok = (LowerAll(call.arg.claims.roles) \cap LowerAll(Names) # {})

\* the role "A" passes has_role("a")
C8_Witness ==
    /\ call.api = "has_role" /\ Names = <<LoA>> /\ call.arg.claims.roles = <<UpA>>
    /\ outcome.ok

OrgCheck ==
    \/ call.api \in {"require_org", "belongs_to_org"}
    \/ /\ call.api = "combine_guards"
       /\ \E i \in 1..Len(call.guards) : call.guards[i].kind = "org"

\* C9: claims whose orgId is None pass no organization check, whatever
\* organization is asked for (a text, the empty text or None).
C9_NullOrgNeverPasses ==
    (OrgCheck /\ GivenClaims /\ call.arg.claims.orgId = None)
    => (~outcome.ok /\ ~outcome.called)

\* the organization "None" is asked for of claims without organization
C9_Witness ==
    /\ call.api = "require_org" /\ GivenClaims /\ call.arg.claims.orgId = None
    /\ call.org = None /\ call.query = NoneText
    /\ outcome.detail = "Access denied: organization mismatch"

\* the organization parameter of the call: sent empty, or sent in neither the
\* path nor the query (call.org is the path parameter of require_org and the
\* keyword argument of guard_org)
EmptyOrgSent ==
    IF call.api = "require_org"
    THEN \/ call.org = << >> /\ call.query \in {None, << >>}
         \/ call.org = None /\ call.query = << >>
    ELSE call.org = << >>
NoOrgSent == call.org = None /\ (call.api = "require_org" => call.query = None)

\* C27: the empty organization id is matched by the organization guards:
\* for claims whose orgId is "" and an organization parameter sent with the
\* value "", require_org returns the claims and guard_org lets the call
\* through, and either fails for a missing parameter only when the parameter
\* is sent in neither the path nor the query.
C27_EmptyOrgMatches ==
    ((call.api = "require_org" \/ OneGuard("org")) /\ GivenClaims)
    => /\ (call.arg.claims.orgId = << >> /\ EmptyOrgSent)
            => /\ outcome.ok /\ outcome.claims = call.arg.claims
               /\ OneGuard("org") => outcome.called
       /\ outcome.detail = "Missing required parameter" => NoOrgSent

\* The kinds of failure of the dependencies.
Kind(detail) ==
    IF detail \in {"Missing bearer token", "Invalid token", "Token expired", "Missing subject"}
    THEN "Missing claims" ELSE detail
SharedForbidden ==
    {"Insufficient role. Required", "Feature not enabled",
     "Access denied: organization mismatch"}
TwoFailures ==
    /\ DependencyCall /\ ~outcome.ok /\ previous # NoFailure
    /\ Kind(outcome.detail) # Kind(previous.detail)

\* C10 as stated: failures of two kinds never carry the same HTTP status.
C10_DistinctStatusPerKind ==
    TwoFailures => outcome.status # previous.status

\* C10 as amended: a missing token is 401, a missing parameter 400, a plan
\* 402 and a role, feature or organization failure 403; two failures of
\* different kinds carry the same status only when both are among the latter
\* three.
C10_StatusPerKind ==
    /\ (DependencyCall /\ ~outcome.ok)
       => outcome.status =
            (CASE Kind(outcome.detail) = "Missing claims" -> 401
               [] Kind(outcome.detail) = "Missing required parameter" -> 400
               [] Kind(outcome.detail) = "Upgrade required. Required plan" -> 402
               [] OTHER -> 403)
    /\ (TwoFailures /\ outcome.status = previous.status)
       => {Kind(outcome.detail), Kind(previous.detail)} \subseteq SharedForbidden

\* a feature failure after a role failure, both 403
C10_Witness ==
    /\ TwoFailures
    /\ outcome.detail = "Feature not enabled" /\ outcome.status = 403
    /\ previous.detail = "Insufficient role. Required" /\ previous.status = 403

\* what each decorator guard asks of the claims and of the org_id argument
Predicate(guard, claims, org_id) ==
    CASE guard.kind = "roles" -> has_any_role(claims, guard.names)
      [] guard.kind = "plan" -> LowerText(OrElse(claims.plan, << >>)) \in LowerAll(guard.names)
      [] guard.kind = "feature" -> has_feature(claims, guard.names[1])
      [] guard.kind = "org" -> ~Falsy(org_id) /\ belongs_to_org(claims, org_id)
      [] OTHER -> TRUE
CallerKwargs == Kwargs(call.arg.claims, call.org, call.user_id)
GuardedCall == call.api = "combine_guards" /\ Len(call.guards) >= 1

C11_WitnessNoClaims ==
    /\ GuardedCall /\ call.guards[1].kind = "org" /\ call.arg.claims = NoClaims
    /\ call.org = None /\ outcome.detail = "Missing authentication claims"


(***************************************************************************)
(* The steps of the Google OAuth service.                                  *)
(***************************************************************************)
InitOAuth ==
    /\ now = 0
    /\ environ \in Environs
    /\ svc = NoService
    /\ tasks = [t \in 1..MaxTasks |-> IdleOAuth.task]
    /\ net = IdleOAuth.net
    /\ reply = IdleOAuth.reply
    /\ request = NoRequest /\ served = NoResponse
    /\ cookies = NoCookies /\ users = NoUsers /\ jobs = NoJobs
    /\ issued = EmptyToken /\ minted = NotMinted /\ token = EmptyToken /\ result = Idle
    /\ call = NoCall /\ outcome = NoOutcome /\ previous = NoFailure

\* get_google_oauth_service: the first use of the singleton constructs it
Construct ==
    /\ svc = NoService
    /\ \E generated \in {Ch(71), Ch(72)} :
        LET made == GoogleOAuthService(environ, generated) IN
        /\ svc' = IF made.ok THEN made.claims ELSE NoService
        /\ reply' = [IdleOAuth.reply EXCEPT !.op = "construct", !.detail = made.detail,
                        !.raised = IF made.ok THEN 0 ELSE made.status]
    /\ UNCHANGED <<now, environ, tasks, net, jwtOnly, guardVars, routeVars>>

\* the ciphertexts a caller can hand in: a token of this service, a token
\* made under another key, and text that is no Fernet token
Ciphertexts ==
    {Encrypt(svc.encryption_key, Ch(49), 0), Encrypt(Ch(88), Ch(49), 0), Encrypt(None, None, 0)}

RefreshAccessToken ==
    /\ svc # NoService
    /\ \E encrypted \in Ciphertexts, iv \in 1..2,
          response \in [status : {200, 400, -1}, access_token : {Ch(65)},
                        refresh_token : {None, << >>, Ch(49), Ch(50)}] :
        reply' = refresh_access_token(svc, encrypted, response, iv)
    /\ UNCHANGED <<now, environ, svc, tasks, net, jwtOnly, guardVars, routeVars>>

RevokeToken ==
    /\ svc # NoService
    /\ \E encrypted \in Ciphertexts,
          response \in [status : {200, 400, 503, -1}, access_token : {None},
                        refresh_token : {None}] :
        reply' = revoke_token(svc, encrypted, response)
    /\ UNCHANGED <<now, environ, svc, tasks, net, jwtOnly, guardVars, routeVars>>

\* what Google answers to the token request and to the JWKS request of an
\* exchange, and the Workspace domains the caller expects (None: none)
ExchangeAnswers ==
    GoogleAnswers
        \cup [status : {200}, access_token : {Ch(65)}, refresh_token : {Ch(50)},
              id_token : WorkspaceIdTokens, jwks : {200}]
ExpectedDomains == {None, << >>, Domains.a}

\* GoogleOAuthService.exchange_code: input is the expected domain of the call
ExchangeAuthorizationCode ==
    /\ svc # NoService
    /\ \E google \in ExchangeAnswers, expected_domain \in ExpectedDomains :
        LET done == exchange_code(svc, Ch(120), cors_origins[1], None, google,
                                  expected_domain, now) IN
        /\ reply' = [IdleOAuth.reply EXCEPT
                        !.op = "exchange_code", !.input = expected_domain,
                        !.response = google,
                        !.raised = IF done.res.ok THEN 0 ELSE done.res.status,
                        !.detail = done.res.detail,
                        !.access_token = IF done.res.ok THEN google.access_token ELSE None,
                        !.jwks = done.service._jwks_cache]
        /\ svc' = done.service
    /\ UNCHANGED <<now, environ, tasks, net, jwtOnly, guardVars, routeVars>>

NextOAuth ==
    \/ Construct
    \/ RefreshAccessToken
    \/ RevokeToken
    \/ ExchangeAuthorizationCode

SpecOAuth == InitOAuth /\ [][NextOAuth]_vars

(***************************************************************************)
(* The JWKS cache of a constructed service: coroutines verify ID tokens    *)
(* while Google rotates its keys and the clock advances.                   *)
(***************************************************************************)
InitJwks ==
    /\ now = 0
    /\ environ = IdleOAuth.environ
    /\ svc = GoogleOAuthService(environ, Ch(71)).claims
    /\ tasks = [t \in 1..MaxTasks |-> IdleOAuth.task]
    /\ net = IdleOAuth.net
    /\ reply = IdleOAuth.reply
    /\ request = NoRequest /\ served = NoResponse
    /\ cookies = NoCookies /\ users = NoUsers /\ jobs = NoJobs
    /\ issued = EmptyToken /\ minted = NotMinted /\ token = EmptyToken /\ result = Idle
    /\ call = NoCall /\ outcome = NoOutcome /\ previous = NoFailure

\* the rest of verify_id_token once _get_jwks has returned jwks; the ID token
\* of the call, which _get_jwks does not look at, is drawn here, and no
\* Workspace domain is expected
ResumeVerify(at, cached, jwks) ==
    \E id_token \in IdTokens :
        LET res == verify_id_token(jwks, id_token, svc.client_id, None, now) IN
        reply' = [IdleOAuth.reply EXCEPT !.op = "verify", !.input = id_token, !.at = at,
                     !.cached = cached, !.jwks = jwks,
                     !.raised = IF res.ok THEN 0 ELSE res.status, !.detail = res.detail]

\* verify_id_token up to the first await of _get_jwks: the cached keys are
\* served, or the request for the keys is sent
VerifyIdToken(t) ==
    /\ tasks[t].pc = "idle"
    /\ LET others == \E u \in 1..MaxTasks : tasks[u].pc # "idle" IN
       IF CacheValid(svc, now)
       THEN /\ ResumeVerify(now, TRUE, svc._jwks_cache)
            /\ net' = [net EXCEPT !.overlapped = @ \/ others]
            /\ tasks' = tasks
       ELSE /\ net.requests < MaxFetches
            /\ tasks' = [tasks EXCEPT ![t] = [pc |-> "jwks_wait", started |-> now]]
            /\ net' = [net EXCEPT !.overlapped = @ \/ others, !.requests = @ + 1]
            /\ reply' = IdleOAuth.reply
    /\ UNCHANGED <<now, environ, svc, jwtOnly, guardVars, routeVars>>

\* a JwksResponse that forgets the cached keys when the request has failed
JwksResponse_ClearsCache(t) ==
    /\ tasks[t].pc = "jwks_wait"
    /\ tasks' = [tasks EXCEPT ![t] = IdleOAuth.task]
    /\ \E status \in {200, 503} :
        LET json == KeySet(net.version) IN
        IF status # 200
        THEN /\ reply' = [IdleOAuth.reply EXCEPT !.op = "verify", !.at = tasks[t].started,
                             !.raised = 500, !.detail = "Failed to fetch Google public keys"]
             /\ svc' = [svc EXCEPT !._jwks_cache = NoService._jwks_cache,
                                   !._jwks_cache_time = NoService._jwks_cache_time]
             /\ UNCHANGED net
        ELSE /\ svc' = [svc EXCEPT !._jwks_cache = json,
                                   !._jwks_cache_time = tasks[t].started]
             /\ net' = [net EXCEPT !.stamp = [at |-> tasks[t].started, json |-> json,
                                              requests |-> net.requests]]
             /\ ResumeVerify(tasks[t].started, FALSE, json)
    /\ UNCHANGED <<now, environ, jwtOnly, guardVars, routeVars>>

\* Google answers the JWKS request of coroutine t, which stores the keys
\* under the time it read before the request and goes on verifying
JwksResponse(t) ==
    /\ tasks[t].pc = "jwks_wait"
    /\ tasks' = [tasks EXCEPT ![t] = IdleOAuth.task]
    /\ \E status \in {200, 503} :
        LET json == KeySet(net.version) IN
        IF status # 200
        THEN /\ reply' = [IdleOAuth.reply EXCEPT !.op = "verify", !.at = tasks[t].started,
                             !.raised = 500, !.detail = "Failed to fetch Google public keys"]
             /\ UNCHANGED <<svc, net>>
        ELSE /\ svc' = [svc EXCEPT !._jwks_cache = json,
                                   !._jwks_cache_time = tasks[t].started]
             /\ net' = [net EXCEPT !.stamp = [at |-> tasks[t].started, json |-> json,
                                              requests |-> net.requests]]
             /\ ResumeVerify(tasks[t].started, FALSE, json)
    /\ UNCHANGED <<now, environ, jwtOnly, guardVars, routeVars>>

\* Google publishes another set of keys
RotateKeys ==
    /\ net.version = 1
    /\ net' = [net EXCEPT !.version = 2]
    /\ UNCHANGED <<now, environ, svc, tasks, reply, jwtOnly, guardVars, routeVars>>

Advance ==
    /\ now < MaxClock
    /\ now' = now + 1
    /\ UNCHANGED <<environ, svc, tasks, net, reply, jwtOnly, guardVars, routeVars>>

NextJwks ==
    \/ \E t \in 1..MaxTasks : VerifyIdToken(t)
    \/ \E t \in 1..MaxTasks : JwksResponse(t)
    \/ RotateKeys
    \/ Advance

SpecJwks == InitJwks /\ [][NextJwks]_vars

(***************************************************************************)
(* Properties of the Google OAuth service.                                 *)
(***************************************************************************)
Waiting == {t \in 1..MaxTasks : tasks[t].pc = "jwks_wait"}
Fetched == net.stamp.at # -1
InWindow(t) == Fetched /\ t - net.stamp.at < JwksCacheTtlHours * TicksPerHour

\* C12: while the verifications of one service come one after the other, no
\* JWKS request is sent less than one hour after the request that Google
\* last answered with keys was begun, each verification in that hour is
\* served the keys of that answer, a verification begun an hour or more
\* after it sends a request, and the cache holds the keys of the last
\* answer and nothing else.
C12_OneFetchPerTtlWindow ==
    ~net.overlapped
    => /\ InWindow(now) => (Waiting = {} /\ net.requests = net.stamp.requests)
       /\ \A t \in Waiting : ~InWindow(tasks[t].started)
       /\ (reply.op = "verify" /\ reply.cached)
            => (InWindow(reply.at) /\ reply.jwks = net.stamp.json)
       /\ (reply.op = "verify" /\ ~reply.cached /\ reply.raised # 500)
            => (reply.at = net.stamp.at /\ reply.jwks = net.stamp.json)
       /\ Fetched => /\ svc._jwks_cache = net.stamp.json
                     /\ svc._jwks_cache_time = net.stamp.at

\* the rotated keys were fetched after the first hour and then served from the cache
C12_Witness ==
    /\ ~net.overlapped /\ net.requests = 2 /\ net.stamp.requests = 2
    /\ net.stamp.json = KeySet(2) /\ net.stamp.at >= JwksCacheTtlHours * TicksPerHour
    /\ reply.op = "verify" /\ reply.cached /\ reply.at > net.stamp.at /\ reply.raised = 0

\* C13: at no time are two JWKS requests of the service in flight, so that
\* concurrent verifications that find the cache empty or expired share one
\* fetch.
C13_SingleFlight == Cardinality(Waiting) <= 1

\* C14: a successful refresh_access_token returns the ciphertext it was given
\* when Google's answer carries no refresh token, and otherwise a new
\* ciphertext that the service key decrypts to the refresh token of the
\* answer.
C14_RefreshRotation ==
    (reply.op = "refresh" /\ reply.raised = 0)
    => /\ reply.response.status = 200
       /\ reply.posted = Decrypt(svc.encryption_key, reply.input)
       /\ reply.access_token = reply.response.access_token
       /\ IF Falsy(reply.response.refresh_token)
          THEN reply.refresh_token = reply.input
          ELSE /\ reply.refresh_token # reply.input
               /\ Decrypt(svc.encryption_key, reply.refresh_token)
                    = reply.response.refresh_token

\* Google rotated the refresh token "1" to "2"
C14_Witness ==
    /\ reply.op = "refresh" /\ reply.raised = 0
    /\ reply.input.plain = Ch(49) /\ reply.response.refresh_token = Ch(50)
    /\ reply.refresh_token.plain = Ch(50)

\* Google's answer carried no refresh token
C14_WitnessKept ==
    /\ reply.op = "refresh" /\ reply.raised = 0
    /\ reply.response.refresh_token = None /\ reply.refresh_token = reply.input

\* C15: revoke_token always returns: True exactly when the ciphertext could
\* be decrypted and Google answered 200, and without a request to Google
\* when the ciphertext cannot be decrypted.
C15_RevokeNeverFails ==
    reply.op = "revoke"
    => /\ reply.raised = 0
       /\ reply.revoked = (reply.posted # None /\ reply.response.status = 200)
       /\ Decrypt(svc.encryption_key, reply.input) = None => reply.posted = None

\* C16: where the settings classify the environment as production and no
\* APP_REFRESH_TOKEN_KEY is supplied, no service is ever constructed, and
\* every attempt fails with the configuration error.
C16_ProductionRequiresSuppliedKey ==
    (is_production(environ.ENV) /\ Falsy(environ.APP_REFRESH_TOKEN_KEY))
    => /\ svc = NoService
       /\ reply.op = "construct" => reply.raised = 500

\* the last verification was given an ID token that Google signed with the
\* key it rotated in (key 3, which KeySet(2) holds and KeySet(1) does not)
NewKeyToken ==
    /\ reply.op = "verify" /\ reply.raised # 500 /\ net.version = 2
    /\ reply.input.kid = 3 /\ reply.input.signer = 3 /\ reply.input.aud = svc.client_id

\* C28: a kid miss triggers no JWKS request.  After Google has rotated in a
\* new signing key, a verification of a token signed with that key that is
\* made within the TTL of the last fetch is served the cached keys, fails
\* with the no-matching-key error when they are the keys from before the
\* rotation, and sends no request; a verification that does fetch, which it
\* does only once the TTL has lapsed, is given the rotated keys and succeeds.
C28_KidMissNoRefetch ==
    NewKeyToken
    => IF reply.cached
       THEN /\ InWindow(reply.at)
            /\ ~net.overlapped => (net.requests = net.stamp.requests /\ Waiting = {})
            /\ reply.jwks = net.stamp.json
            /\ reply.jwks = KeySet(1)
                 => /\ reply.raised = 400
                    /\ reply.detail = "Unable to find matching public key for ID token"
       ELSE /\ reply.at = net.stamp.at /\ reply.jwks = net.stamp.json
            /\ reply.jwks = KeySet(2) => reply.raised = 0

\* the token was refused from the cache of before the rotation
C28_Witness ==
    /\ NewKeyToken /\ ~net.overlapped /\ reply.cached /\ reply.jwks = KeySet(1)
    /\ reply.raised = 400 /\ net.requests = 1

\* the TTL has lapsed, the keys were fetched again and the token is accepted
C28_WitnessRetry ==
    /\ NewKeyToken /\ ~net.overlapped /\ ~reply.cached /\ reply.raised = 0
    /\ net.requests = 2 /\ reply.at >= JwksCacheTtlHours * TicksPerHour

\* C29: a JWKS request that Google answers with another status than 200
\* makes the verification fail with "Failed to fetch Google public keys" and
\* leaves the cached keys and the cached fetch time as they were, so that
\* the next of a sequence of verifications sends the request again; and the
\* keys a verification uses are the ones it has just fetched or cached ones
\* that are less than the TTL old.
C29_FailedFetchKeepsCache ==
    /\ [][(reply'.op = "verify" /\ reply'.raised = 500)
            => /\ svc' = svc
               /\ reply'.detail = "Failed to fetch Google public keys"]_vars
    /\ [](reply.op = "verify"
            => /\ (reply.raised = 500 /\ ~net.overlapped) => ~CacheValid(svc, now)
               /\ reply.raised # 500
                    => /\ reply.jwks = svc._jwks_cache
                       /\ reply.at - svc._jwks_cache_time < _jwks_cache_ttl
                       /\ ~reply.cached => reply.at = svc._jwks_cache_time)

\* the second fetch failed and the keys of the first, now stale, are still cached
C29_Witness ==
    /\ reply.op = "verify" /\ reply.raised = 500 /\ net.requests = 2
    /\ svc._jwks_cache = KeySet(1) /\ svc._jwks_cache_time = 0
    /\ now >= _jwks_cache_ttl

\* the ID token of the exchange passes every check before the domain check
PassesTokenChecks ==
    LET id_token == reply.response.id_token IN
    /\ reply.response.status = 200 /\ ~Falsy(reply.response.access_token)
    /\ CacheValid(svc, now)
    /\ id_token.kid # 0 /\ id_token.kid \in svc._jwks_cache
    /\ id_token.signer = id_token.kid /\ id_token.exp > now
    /\ id_token.iss \in {"https://accounts.google.com", "accounts.google.com"}
    /\ id_token.aud = svc.client_id

\* C22: when an expected hosted domain is supplied, exchange_code returns an
\* identity only for an ID token whose hd claim equals it exactly; a token
\* that passes the signature, audience, issuer and expiry checks but whose hd
\* is another domain, the domain in other letter case, or missing fails with
\* "User not from expected domain" (403), not with a 401, and no token is
\* returned.
C22_ExpectedDomain ==
    (reply.op = "exchange_code" /\ ~Falsy(reply.input))
    => /\ reply.raised = 0 => reply.response.id_token.hd = reply.input
       /\ (PassesTokenChecks /\ reply.response.id_token.hd # reply.input)
            => /\ reply.raised = 403
               /\ reply.detail = "User not from expected domain"
               /\ reply.access_token = None

\* "A.io" where "a.io" is expected, and no hd where "a.io" is expected
C22_Witness ==
    /\ reply.op = "exchange_code" /\ reply.input = Domains.a /\ PassesTokenChecks
    /\ reply.response.id_token.hd = Domains.A /\ reply.raised = 403

C22_WitnessMissing ==
    /\ reply.op = "exchange_code" /\ reply.input = Domains.a /\ PassesTokenChecks
    /\ reply.response.id_token.hd = None /\ reply.raised = 403

C22_WitnessAccepted ==
    /\ reply.op = "exchange_code" /\ reply.input = Domains.a
    /\ reply.response.id_token.hd = Domains.a /\ reply.raised = 0

\* C23: refresh_access_token called with a ciphertext that the service key
\* cannot decrypt (made under another key, or no Fernet token at all) fails
\* with "Invalid refresh token" (401), sends no request to the token
\* endpoint, returns no token and leaves the service as it was.
C23_UndecryptableRefresh ==
    [][(reply'.op = "refresh" /\ reply'.input.key # svc.encryption_key)
         => /\ reply'.raised = 401 /\ reply'.detail = "Invalid refresh token"
            /\ reply'.posted = None
            /\ reply'.access_token = None /\ reply'.refresh_token = NoValue[2]
            /\ svc' = svc]_vars

\* a ciphertext made under another key was refused
C23_Witness ==
    /\ reply.op = "refresh" /\ reply.input = Encrypt(Ch(88), Ch(49), 0)
    /\ reply.raised = 401 /\ reply.posted = None

(***************************************************************************)
(* The popup-flow routes as a state machine: one request at a time is      *)
(* handled and its served delivered; the service singleton and its JWKS  *)
(* cache live on from request to request.                                  *)
(***************************************************************************)
InitRoutes ==
    /\ now = 0
    /\ environ \in RouteEnvirons
    /\ svc = NoService
    /\ tasks = [t \in 1..MaxTasks |-> IdleOAuth.task]
    /\ net = IdleOAuth.net
    /\ reply = IdleOAuth.reply
    /\ request = NoRequest /\ served = NoResponse
    /\ cookies = NoCookies /\ users = NoUsers /\ jobs = NoJobs
    /\ issued = EmptyToken /\ minted = NotMinted /\ token = EmptyToken /\ result = Idle
    /\ call = NoCall /\ outcome = NoOutcome /\ previous = NoFailure

\* the allow-lists handed to _verify_origin: the default one,
\* ["http://localhost", "http://evil.io:3000"] and the empty one
AllowLists ==
    {cors_origins,
     <<Words.http \o Words.sep \o Words.localhost,
       Words.http \o Words.sep \o Words.evil \o Words.port>>,
     << >>}

\* _verify_origin called for a request with any two headers
VerifyOrigin ==
    /\ request = NoRequest
    /\ \E origin \in HeaderValues, referer \in HeaderValues, allowed_origins \in AllowLists :
        /\ request' = [NoRequest EXCEPT !.route = "_verify_origin", !.origin = origin,
                                        !.referer = referer,
                                        !.allowed_origins = allowed_origins]
        /\ LET res == _verify_origin(request', allowed_origins) IN
           served' = [Failed(res) EXCEPT !.origin = IF res.ok THEN res.claims ELSE None]
    /\ UNCHANGED <<now, jwtOnly, guardVars, oauthVars, cookies, billingVars>>

\* the requests sent to a route: Origin not sent, allowed, allowed once parsed
\* ("HTTP://localhost:3000/x"), foreign, or allowed by APP_CORS_ORIGINS only;
\* the sentinel header not sent, empty, spelled in two ways or with another
\* value
Requests(route) ==
    [route : {route},
     origin : {None, cors_origins[1],
               Words.HTTP \o Words.sep \o Words.localhost \o Words.port \o Words.path,
               Words.http \o Words.sep \o Words.evil,
               Words.http \o Words.sep \o Words.evil \o Words.port},
     referer : {None, cors_origins[1] \o Words.path},
     x_requested_with : {None, << >>, Words.XMLHttpRequest, Words.xmlhttprequest, Words.fetch},
     body : IF route = "revoke" THEN {FALSE} ELSE BOOLEAN,
     refresh_token : IF route = "refresh"
                     THEN {Encrypt(Ch(75), Ch(49), 0), Encrypt(Ch(88), Ch(49), 0)}
                     ELSE {NoRequest.refresh_token},
     user : IF route = "revoke" THEN BOOLEAN ELSE {FALSE},
     allowed_origins : {_get_allowed_origins(environ)},
     provider : {None}, code : IF route = "exchange" THEN {Ch(120)} ELSE {None},
     state : {None}, redirect_uri : {None}]

ExchangeGoogleCode ==
    /\ request = NoRequest
    /\ \E req \in Requests("exchange"), google \in GoogleAnswers :
        LET done == exchange_google_code(req, environ, svc, Ch(71), google, now) IN
        /\ request' = req
        /\ served' = done.res
        /\ svc' = done.service
    /\ UNCHANGED <<now, environ, tasks, net, reply, jwtOnly, guardVars, cookies, billingVars>>

RefreshGoogleToken ==
    /\ request = NoRequest
    /\ \E req \in Requests("refresh"), google \in GoogleAnswers, iv \in 1..2 :
        LET done == refresh_google_token(req, environ, svc, Ch(71), google, iv) IN
        /\ request' = req
        /\ served' = done.res
        /\ svc' = done.service
    /\ UNCHANGED <<now, environ, tasks, net, reply, jwtOnly, guardVars, cookies, billingVars>>

RevokeGoogleToken ==
    /\ request = NoRequest
    /\ \E req \in Requests("revoke") :
        LET done == revoke_google_token(req, environ, svc, Ch(71)) IN
        /\ request' = req
        /\ served' = done.res
        /\ svc' = done.service
    /\ UNCHANGED <<now, environ, tasks, net, reply, jwtOnly, guardVars, cookies, billingVars>>

\* the served has been sent
Respond ==
    /\ request # NoRequest
    /\ request' = NoRequest
    /\ served' = NoResponse
    /\ UNCHANGED <<now, jwtOnly, guardVars, oauthVars, cookies, billingVars>>

NextRoutes ==
    \/ VerifyOrigin
    \/ ExchangeGoogleCode
    \/ RefreshGoogleToken
    \/ RevokeGoogleToken
    \/ Respond

SpecRoutes == InitRoutes /\ [][NextRoutes]_vars

(***************************************************************************)
(* Properties of the popup-flow routes.                                    *)
(***************************************************************************)
Refused(detail) == served.status = 403 /\ served.detail = detail
Returned(origin) == served.status = 200 /\ served.origin = origin

\* scheme://host[:port] of a URL as the client wrote it, and with the scheme
\* in lower case
Base(u) == u.scheme \o Words.sep \o u.host \o u.port
Normal(u) == LowerText(u.scheme) \o Words.sep \o u.host \o u.port

\* what the rule of C17 asks of the header value chosen
OriginRule(chosen, base(_)) ==
    /\ chosen = None => Refused("Missing origin information")
    /\ chosen = << >> => served.status = 403
    /\ chosen = Words.null => Refused("Origin not allowed")
    /\ \A u \in Urls :
        chosen = UrlText(u)
        => IF base(u) \in Range(request.allowed_origins)
           THEN Returned(base(u))
           ELSE Refused("Origin not allowed")

\* C17 as stated: _verify_origin takes Origin when the header is there and
\* Referer otherwise; with neither it fails with "Missing origin information";
\* it returns scheme://host[:port] of the header taken iff that very string
\* is in the allow-list and fails with "Origin not allowed" otherwise.
C17_VerifyOriginAsStated ==
    request.route = "_verify_origin"
    => OriginRule(IF request.origin # None THEN request.origin ELSE request.referer, Base)

\* C17 as amended: _verify_origin takes Origin when the header is there and
\* not empty, and Referer otherwise; when the header taken is missing or empty
\* it fails with "Missing origin information"; it returns the scheme in lower
\* case, "://" and the host[:port] of the header taken iff that string is in
\* the allow-list and fails with "Origin not allowed" otherwise, so a foreign
\* Origin is refused even when the Referer is allowed.
C17_VerifyOrigin ==
    request.route = "_verify_origin"
    => LET chosen == IF request.origin \notin {None, << >>} THEN request.origin
                     ELSE request.referer IN
       IF chosen \in {None, << >>} THEN Refused("Missing origin information")
       ELSE OriginRule(chosen, Normal)

\* a foreign Origin refused although the Referer is in the allow-list
C17_Witness ==
    /\ request.route = "_verify_origin"
    /\ request.origin = Words.http \o Words.sep \o Words.evil
    /\ request.referer = cors_origins[1] \o Words.path
    /\ request.allowed_origins = cors_origins
    /\ Refused("Origin not allowed")

\* an Origin with its scheme in capitals and a path, accepted in lower case
C17_WitnessNormalised ==
    /\ request.route = "_verify_origin"
    /\ request.origin = Words.HTTP \o Words.sep \o Words.localhost \o Words.port \o Words.path
    /\ Returned(cors_origins[1])

PopupRoute == request.route \in {"exchange", "refresh", "revoke"}
SentinelGiven == request.x_requested_with \in {Words.XMLHttpRequest, Words.xmlhttprequest}
OriginAllowed ==
    LET chosen == IF request.origin \notin {None, << >>} THEN request.origin
                  ELSE request.referer IN
    \E u \in Urls : chosen = UrlText(u) /\ Normal(u) \in Range(request.allowed_origins)
NothingDone ==
    /\ served.calls = << >>
    /\ served.set_cookie = "" /\ served.delete_cookie = "" /\ served.cookie = EmptyToken
    /\ served.access_token = None /\ served.refresh_token = NoResponse.refresh_token

\* C18 as stated: on /google/exchange, /google/refresh and /google/revoke a
\* request without the sentinel header, or from an origin that is not allowed,
\* is answered 403, and nothing is sent to Google, no cookie is set or
\* cleared and no token is returned.
C18_ChecksBeforeAnything ==
    (PopupRoute /\ ~(SentinelGiven /\ OriginAllowed))
    => (served.status = 403 /\ NothingDone)

\* C18 as amended: such a request is refused without anything being sent to
\* Google, a cookie set or cleared or a token returned; it is answered 500
\* when the service cannot be constructed, else 422 when its body lacks a
\* required field, and else 403, for the sentinel header before the origin.
C18_ChecksBeforeWork ==
    (PopupRoute /\ ~(SentinelGiven /\ OriginAllowed))
    => /\ NothingDone
       /\ IF svc = NoService THEN served.status = 500
          ELSE IF request.route # "revoke" /\ ~request.body THEN served.status = 422
          ELSE IF ~SentinelGiven THEN Refused("Missing required security header")
          ELSE \/ Refused("Missing origin information")
               \/ Refused("Origin not allowed")

\* /google/refresh with the sentinel header, a foreign Origin and an allowed
\* Referer, refused for its origin
C18_Witness ==
    /\ request.route = "refresh" /\ request.body /\ SentinelGiven
    /\ request.origin = Words.http \o Words.sep \o Words.evil
    /\ request.referer # None
    /\ Refused("Origin not allowed") /\ NothingDone

\* the three routes at work once both checks pass
C18_WitnessExchange ==
    /\ request.route = "exchange" /\ request.x_requested_with = Words.xmlhttprequest
    /\ served.status = 200 /\ served.set_cookie = "__Host-session"
    /\ Endpoints(served.calls) = <<"token", "jwks">>
C18_WitnessRefresh ==
    /\ request.route = "refresh" /\ served.status = 200 /\ served.access_token # None
    /\ request.origin = Words.http \o Words.sep \o Words.evil \o Words.port
C18_WitnessRevoke ==
    /\ request.route = "revoke" /\ served.status = 200 /\ served.delete_cookie = "session"

(***************************************************************************)
(* The session token codec as a state machine: tokens are signed, altered  *)
(* in flight and verified while the clock advances.                        *)
(***************************************************************************)

InitJwt ==
    /\ now = 0
    /\ issued = EmptyToken
    /\ minted = NotMinted
    /\ token = EmptyToken
    /\ result = Idle
    /\ call = NoCall
    /\ outcome = NoOutcome
    /\ previous = NoFailure
    /\ environ = IdleOAuth.environ
    /\ svc = NoService
    /\ tasks = [t \in 1..MaxTasks |-> IdleOAuth.task]
    /\ net = IdleOAuth.net
    /\ reply = IdleOAuth.reply
    /\ request = NoRequest /\ served = NoResponse
    /\ cookies = NoCookies /\ users = NoUsers /\ jobs = NoJobs

\* A caller signs a token for some claims.  One token is followed per
\* behaviour, signed early enough for its expiry to fall inside the window.
NothingIssued == minted.by = "none" /\ now <= MaxEarly

SignAccessJwt ==
    \E input \in ClaimInputs, ttl \in Ttls :
        /\ NothingIssued
        /\ issued' = sign_access_jwt(input, ttl, now)
        /\ token' = issued'
        /\ minted' = [by |-> "sign", input |-> input, ttl |-> ttl, at |-> now]
        /\ result' = Idle
        /\ UNCHANGED <<now, guardVars, oauthVars, routeVars>>

\* The payloads tests/auth/test_jwt.py encodes by hand: any subject, audience
\* and issuer, under the service's key.
RawPayloads(t) ==
    {[sub |-> s, email |-> None, orgId |-> None, roles |-> << >>, plan |-> None,
      features |-> << >>, iat |-> IntTimestamp(t),
      exp |-> IntTimestamp(t + ttl * TicksPerMinute), aud |-> a, iss |-> i]
     : s \in SubjectValues \cup {Absent}, a \in {APP_JWT_AUDIENCE, OtherAudience},
       i \in {APP_JWT_ISSUER, OtherIssuer}, ttl \in Ttls}

RawEncode ==
    \E payload \in RawPayloads(now) :
        /\ NothingIssued
        /\ issued' = JwtEncode(payload, APP_JWT_SECRET)
        /\ token' = issued'
        /\ minted' = [by |-> "encode", input |-> NoInput, ttl |-> 0, at |-> now]
        /\ result' = Idle
        /\ UNCHANGED <<now, guardVars, oauthVars, routeVars>>

\* The signature segments a client can put in place of the issued one: the
\* same tag spelled with other spare bits, and the tag of another key.
Segments(tok) ==
    {[bytes |-> B64Decode(tok.sig), spare |-> s] : s \in 0..1}
        \cup {B64Encode(Hmac(OtherSecret, tok.payload))}

ReplaceSignature ==
    /\ issued.form = "jws"
    /\ \E seg \in Segments(issued) :
        /\ seg # issued.sig
        /\ token' = [issued EXCEPT !.sig = seg]
    /\ result' = Idle
    /\ UNCHANGED <<now, issued, minted, guardVars, oauthVars, routeVars>>

PresentMalformed ==
    /\ minted.by = "none"
    /\ token' \in {EmptyToken, MalformedToken}
    /\ token' # token
    /\ result' = Idle
    /\ UNCHANGED <<now, issued, minted, guardVars, oauthVars, routeVars>>

VerifyAccessJwt ==
    /\ result' = [op |-> "verify", res |-> verify_access_jwt(token, now)]
    /\ UNCHANGED <<now, issued, minted, token, guardVars, oauthVars, routeVars>>

AuthRequired ==
    \E authorization \in Headers(token) :
        /\ result' = [op |-> "auth_required", res |-> auth_required(authorization, now)]
        /\ UNCHANGED <<now, issued, minted, token, guardVars, oauthVars, routeVars>>

\* Time passes; the response of the last call has been delivered.
Tick ==
    /\ \E t \in ClockPoints : t > now /\ now' = t
    /\ result' = Idle
    /\ UNCHANGED <<issued, minted, token, guardVars, oauthVars, routeVars>>

NextJwt ==
    \/ SignAccessJwt
    \/ RawEncode
    \/ ReplaceSignature
    \/ PresentMalformed
    \/ VerifyAccessJwt
    \/ AuthRequired
    \/ Tick

SpecJwt == InitJwt /\ [][NextJwt]_vars

(***************************************************************************)
(* Properties of the session token codec.                                  *)
(***************************************************************************)
Verified == result.op = "verify"
Untouched == token = issued
BeforeExpiry == now < issued.payload.exp * TicksPerSec
Rejected(detail) == ~result.res.ok /\ result.res.status = 401 /\ result.res.detail = detail

\* C1: a token signed for a non-empty subject with a positive ttl and verified
\* before its exp is accepted, and the claims read back are the input (None
\* roles / features as empty lists) plus iat, exp, aud and iss only.
C1_RoundTrip ==
    (Verified /\ Untouched /\ minted.by = "sign" /\ minted.input.sub # << >>
        /\ minted.ttl > 0 /\ BeforeExpiry)
    => /\ result.res.ok
       /\ result.res.claims.sub = minted.input.sub
       /\ result.res.claims.email = minted.input.email
       /\ result.res.claims.orgId = minted.input.orgId
       /\ result.res.claims.plan = minted.input.plan
       /\ result.res.claims.roles
            = (IF minted.input.roles = NoneList THEN << >> ELSE minted.input.roles)
       /\ result.res.claims.features
            = (IF minted.input.features = NoneList THEN << >> ELSE minted.input.features)
       /\ DOMAIN result.res.claims
            = {"sub", "email", "orgId", "roles", "plan", "features", "iat", "exp", "aud", "iss"}
       /\ result.res.claims.iat = minted.at \div TicksPerSec
       /\ result.res.claims.exp = result.res.claims.iat + minted.ttl * SecsPerMinute
       /\ result.res.claims.aud = APP_JWT_AUDIENCE
       /\ result.res.claims.iss = APP_JWT_ISSUER

\* a token with an e-mail and None roles, accepted one tick before its exp
C1_Witness ==
    /\ Verified /\ Untouched /\ minted.by = "sign" /\ result.res.ok
    /\ minted.input.email # None /\ minted.input.roles = NoneList
    /\ now + 1 = issued.payload.exp * TicksPerSec

\* C2: verify_access_jwt accepts a token only if its aud is the configured
\* audience and its iss the configured issuer.
C2_AcceptsOnlyConfiguredAudienceAndIssuer ==
    (Verified /\ result.res.ok)
    => /\ token.payload.aud = APP_JWT_AUDIENCE
       /\ token.payload.iss = APP_JWT_ISSUER

\* C3: a token signed with ttl_minutes <= 0 is rejected with "Token expired"
\* whenever it is verified, from the instant of signing on.
C3_NonPositiveTtlExpired ==
    (Verified /\ Untouched /\ minted.by = "sign" /\ minted.ttl <= 0)
    => Rejected("Token expired")

\* a ttl of 0, verified in the tick it was signed in
C3_Witness ==
    /\ Verified /\ Untouched /\ minted.by = "sign" /\ minted.ttl = 0
    /\ now = minted.at /\ now > 0
    /\ Rejected("Token expired")

SignatureReplaced ==
    /\ minted.by = "sign" /\ token.form = "jws"
    /\ token.payload = issued.payload /\ token.sig # issued.sig

\* C4 as stated: any signature segment other than the issued one makes the
\* verification fail with "Invalid token".
C4_AnyOtherSegmentInvalid ==
    (Verified /\ SignatureReplaced) => Rejected("Invalid token")

\* C4 as amended: any signature segment that decodes to other bytes than the
\* issued signature makes the verification fail with "Invalid token", expired
\* or not.
C4_OtherSignatureInvalid ==
    (Verified /\ SignatureReplaced /\ token.sig.bytes # issued.sig.bytes)
    => Rejected("Invalid token")

\* an expired token with a signature of another key: invalid, not expired
C4_Witness ==
    /\ Verified /\ SignatureReplaced /\ token.sig.bytes # issued.sig.bytes
    /\ ~BeforeExpiry /\ minted.input.sub # << >>
    /\ Rejected("Invalid token")

\* C5: a token with a good signature and audience that has not expired but
\* has no subject, or an empty one, is rejected with "Missing subject"; and
\* auth_required never returns claims with an empty subject.
C5_MissingSubject ==
    /\ (Verified /\ token.form = "jws"
            /\ token.sig.bytes = Hmac(APP_JWT_SECRET, token.payload)
            /\ token.payload.aud = APP_JWT_AUDIENCE
            /\ now < token.payload.exp * TicksPerSec
            /\ token.payload.sub \in {Absent, << >>})
       => (Rejected("Missing subject") /\ ~Rejected("Invalid token") /\ ~Rejected("Token expired"))
    /\ (result.op = "auth_required" /\ result.res.ok)
       => (result.res.claims.sub \notin {Absent, None, << >>})

\* a token encoded without sub, rejected for that
C5_Witness ==
    /\ Verified /\ token.payload.sub = Absent /\ Rejected("Missing subject")

(***************************************************************************)
(* The redirect flow as a state machine: the redirect URI is resolved, a   *)
(* code is exchanged for a session token, and the token is presented to    *)
(* the bearer-token verification while the clock advances.                 *)
(***************************************************************************)
InitSession ==
    /\ now = 0
    /\ environ \in SessionEnvirons
    /\ issued = EmptyToken /\ minted = NotMinted /\ token = EmptyToken /\ result = Idle
    /\ call = NoCall /\ outcome = NoOutcome /\ previous = NoFailure
    /\ svc = NoService
    /\ tasks = [t \in 1..MaxTasks |-> IdleOAuth.task]
    /\ net = IdleOAuth.net
    /\ reply = IdleOAuth.reply
    /\ request = NoRequest /\ served = NoResponse
    /\ cookies = NoCookies /\ users = NoUsers /\ jobs = NoJobs

ProviderNames == {Literals.google, Literals.Google, Literals.github}

\* _get_redirect_uri as build_login_url and exchange_code call it
GetRedirectUri ==
    \E provider_name \in ProviderNames :
        /\ result' = [op |-> "_get_redirect_uri",
                      res |-> _get_redirect_uri(provider_name, environ)]
        /\ UNCHANGED <<now, issued, minted, token, guardVars, oauthVars, routeVars>>

\* GET /auth/{provider}/callback: one code is exchanged per behaviour
ExchangeCode ==
    /\ NothingIssued
    /\ \E provider_name \in ProviderNames, provider \in ProviderAnswers :
        LET done == session_exchange_code(provider_name, Ch(120), Ch(115), environ,
                                          provider, now)
            session == done.res IN
        /\ result' = [op |-> "exchange_code",
                      res |-> IF session.ok THEN Return(session.claims.payload) ELSE session]
        /\ served' = [NoResponse EXCEPT !.calls = done.calls]
        /\ reply' = [IdleOAuth.reply EXCEPT !.op = "exchange_code", !.response = provider]
        /\ issued' = IF session.ok THEN session.claims ELSE issued
        /\ token' = issued'
        /\ minted' = IF session.ok
                     THEN [by |-> "exchange_code",
                           input |-> [NoInput EXCEPT !.sub = provider.id,
                                                    !.email = provider.email],
                           ttl |-> access_token_expire_minutes, at |-> now]
                     ELSE minted
    /\ UNCHANGED <<now, guardVars, environ, svc, tasks, net, request, cookies, billingVars>>

NextSession ==
    \/ GetRedirectUri
    \/ ExchangeCode
    \/ VerifyAccessJwt
    \/ AuthRequired
    \/ Tick

SpecSession == InitSession /\ [][NextSession]_vars

(***************************************************************************)
(* Properties of the redirect flow.                                        *)
(***************************************************************************)
NothingConfigured ==
    /\ Falsy(environ.APP_OAUTH_REDIRECT_URI_TEMPLATE)
    /\ Falsy(environ.APP_OAUTH_REDIRECT_URI)
    /\ environ.auth_oauth_redirect_uri = None

\* C19: when no redirect URI is configured, through neither of the two
\* environment variables nor the auth configuration of the settings,
\* _get_redirect_uri fails with the configuration error (500) and returns no
\* URI, and exchange_code does not proceed.
C19_NoDefaultRedirectUri ==
    /\ (result.op = "_get_redirect_uri" /\ NothingConfigured)
       => (~result.res.ok /\ result.res.status = 500)
    /\ (result.op = "exchange_code" /\ NothingConfigured) => ~result.res.ok

\* C20: the session token that a successful exchange_code minted, presented
\* unaltered to verify_access_jwt before its exp, is accepted, with the minted
\* subject, the role "user" and the plan "free".
C20_MintedSessionAccepted ==
    (Verified /\ Untouched /\ minted.by = "exchange_code" /\ BeforeExpiry)
    => /\ result.res.ok
       /\ result.res.claims.sub = minted.input.sub
       /\ result.res.claims.roles = <<Literals.user>>
       /\ result.res.claims.plan = Literals.free

\* C25: one exchange_code sends at most one request to the token endpoint
\* and then at most one to the user-info endpoint; the user-info request is
\* sent only after a 200 token answer with a non-empty access token, which it
\* carries; a session token is minted only after a 200 user-info answer; and
\* an exchange that fails leaves no session.
C25_OneRequestEach ==
    result.op = "exchange_code"
    => LET calls == Endpoints(served.calls)
           answer == reply.response IN
       /\ calls \in {<< >>, <<"token">>, <<"token", "userinfo">>}
       /\ Len(calls) = 2
            => /\ answer.status = 200 /\ ~Falsy(answer.access_token)
               /\ served.calls[2].data = answer.access_token
       /\ result.res.ok
            => /\ calls = <<"token", "userinfo">> /\ answer.user_status = 200
               /\ minted.by = "exchange_code" /\ issued.form = "jws"
       /\ ~result.res.ok => (minted.by = "none" /\ issued = EmptyToken)

\* the token answer was good and the user-info answer was not: no session
C25_Witness ==
    /\ result.op = "exchange_code" /\ ~result.res.ok
    /\ Endpoints(served.calls) = <<"token", "userinfo">>
    /\ reply.response.user_status = 401 /\ minted.by = "none"

\* both answers were good
C25_WitnessSession ==
    /\ result.op = "exchange_code" /\ result.res.ok
    /\ Endpoints(served.calls) = <<"token", "userinfo">> /\ issued.form = "jws"

\* the token answer held no access token
C25_WitnessNoToken ==
    /\ result.op = "exchange_code" /\ result.res.detail = "No access token received"
    /\ Endpoints(served.calls) = <<"token">>

(***************************************************************************)
(* Billing: services/billing_service.py applies the events the payment     *)
(* webhooks of routes/payments.py build, through services/user_service.py. *)
(* apply_billing_event awaits twice: it reads the user, and later writes   *)
(* the credits it computed from what it read.  Other coroutines run        *)
(* between the two awaits.                                                  *)
(***************************************************************************)

\* the credits of the stored user before any event (the repository of
\* tests/routes/test_payments.py)
StartCredits == 10

\* PlanDetails of a reference that _PLAN_REFERENCE_MAP does not hold
NoPlanDetails == [found |-> FALSE, plan |-> None, credits |-> NoInt]

\* resolve_plan over the default map of _load_plan_map
resolve_plan(reference) ==
    IF Falsy(reference) THEN NoPlanDetails
    ELSE IF reference = PlanReferences.price_pro_monthly
    THEN [found |-> TRUE, plan |-> Plans.pro, credits |-> IntOf(1000)]
    ELSE IF reference = PlanReferences.price_enterprise_monthly
    THEN [found |-> TRUE, plan |-> Plans.enterprise, credits |-> IntOf(5000)]
    ELSE NoPlanDetails

Max(a, b) == IF a >= b THEN a ELSE b

\* user_service.get_user_by_id: the stored document, or None
get_user_by_id(store, user_id) == store[user_id]

\* FirestoreUserRepository.upsert: the payload over the stored document
upsert(store, user_id, payload) ==
    [store EXCEPT ![user_id] =
        [stored |-> TRUE,
         plan |-> IF payload.plan = None THEN @.plan ELSE payload.plan,
         credits |-> IF payload.credits = NoInt THEN @.credits ELSE payload.credits]]

\* user_service.update_user: UserNotFoundError (ok FALSE) for a user that is
\* not stored; model_dump(exclude_none=True) drops the fields that are None
update_user(store, user_id, profile_update) ==
    IF ~store[user_id].stored THEN [ok |-> FALSE, store |-> store]
    ELSE [ok |-> TRUE, store |-> upsert(store, user_id, profile_update)]

\* apply_billing_event between its two awaits: the UserProfileUpdate it
\* builds from the event and from the user it read
update_kwargs(event, existing) ==
    LET plan_details == resolve_plan(event.plan_reference)
        plan_value == IF ~Falsy(event.plan) THEN event.plan
                      ELSE IF plan_details.found THEN plan_details.plan ELSE None
        credits_value == IF event.credits # NoInt THEN event.credits
                         ELSE IF plan_details.found /\ plan_details.credits # NoInt
                         THEN plan_details.credits ELSE NoInt
        current == IF existing.credits = NoInt THEN 0 ELSE existing.credits[1]
        credits_to_set ==
            IF credits_value # NoInt THEN IntOf(Max(0, credits_value[1]))
            ELSE IF event.credit_delta # NoInt
            THEN IntOf(Max(0, current + event.credit_delta[1]))
            ELSE NoInt IN
    [plan |-> plan_value, credits |-> credits_to_set]

\* the events of the webhooks: for a stored and for an unknown user, with
\* or without a credit delta, with a reference that resolves to a plan with
\* credits or with none; one that names a plan, one that sets the credits
BillingEvents ==
    {[NoEvent EXCEPT !.user_id = u, !.plan_reference = r, !.credit_delta = d] :
        u \in UserIds,
        r \in {None, PlanReferences.price_pro_monthly},
        d \in {NoInt, IntOf(1), IntOf(90)}}
    \cup {[NoEvent EXCEPT !.plan = Plans.enterprise, !.plan_reference = PlanReferences.order,
                          !.credit_delta = IntOf(90)],
          [NoEvent EXCEPT !.credits = IntOf(50), !.credit_delta = IntOf(90)]}

InitBilling ==
    /\ now = 0
    /\ issued = EmptyToken /\ minted = NotMinted /\ token = EmptyToken /\ result = Idle
    /\ call = NoCall /\ outcome = NoOutcome /\ previous = NoFailure
    /\ environ = IdleOAuth.environ /\ svc = NoService
    /\ tasks = [t \in 1..MaxTasks |-> IdleOAuth.task]
    /\ net = IdleOAuth.net /\ reply = IdleOAuth.reply
    /\ request = NoRequest /\ served = NoResponse /\ cookies = NoCookies
    /\ users = [NoUsers EXCEPT !["user-42"] =
                   [stored |-> TRUE, plan |-> Literals.free, credits |-> IntOf(StartCredits)]]
    /\ jobs = NoJobs

\* apply_billing_event up to its first await: the event arrives and the user
\* is read; an unknown user ends the call with False
ReceiveEvent(j, event) ==
    /\ jobs[j].pc = "idle"
    /\ LET existing == get_user_by_id(users, event.user_id) IN
       jobs' = [jobs EXCEPT ![j] =
                   IF ~existing.stored
                   THEN [pc |-> "done", event |-> event, existing |-> NoUser, handled |-> FALSE]
                   ELSE [pc |-> "fetched", event |-> event, existing |-> existing,
                         handled |-> FALSE]]
    /\ UNCHANGED <<now, jwtOnly, guardVars, oauthVars, request, served, cookies, users>>

\* apply_billing_event from its first await on: update_user writes what was
\* computed from the user as it was read
ApplyUpdate(j) ==
    /\ jobs[j].pc = "fetched"
    /\ LET done == update_user(users, jobs[j].event.user_id,
                               update_kwargs(jobs[j].event, jobs[j].existing)) IN
       /\ users' = done.store
       /\ jobs' = [jobs EXCEPT ![j].pc = "done", ![j].handled = done.ok]
    /\ UNCHANGED <<now, jwtOnly, guardVars, oauthVars, request, served, cookies>>

NextBilling ==
    \/ \E j \in 1..MaxJobs, event \in BillingEvents : ReceiveEvent(j, event)
    \/ \E j \in 1..MaxJobs : ApplyUpdate(j)

SpecBilling == InitBilling /\ [][NextBilling]_vars

\* the coroutines that have returned, and whether none is between its awaits
Finished == {j \in 1..MaxJobs : jobs[j].pc = "done"}
NoneInFlight == \A j \in 1..MaxJobs : jobs[j].pc # "fetched"

\* an event that carries a credit delta and sets no absolute credits
DeltaOnly(event) ==
    /\ event.credit_delta # NoInt /\ event.credits = NoInt
    /\ resolve_plan(event.plan_reference).credits = NoInt

RECURSIVE SumDeltas(_)
SumDeltas(S) ==
    IF S = {} THEN 0
    ELSE LET j == CHOOSE k \in S : TRUE IN
         jobs[j].event.credit_delta[1] + SumDeltas(S \ {j})

\* C30: once every apply_billing_event call has returned, all of them having
\* handled an event for the same user that carries a non-negative credit
\* delta, the stored credits are the credits before plus the sum of the deltas.
C30_DeltasNeverLost ==
    (/\ NoneInFlight /\ Finished # {}
     /\ \A j \in Finished : /\ jobs[j].handled /\ jobs[j].event.user_id = "user-42"
                            /\ DeltaOnly(jobs[j].event))
    => users["user-42"].credits = IntOf(StartCredits + SumDeltas(Finished))

(***************************************************************************)
(* The login lifecycle: a browser signs in through the redirect flow       *)
(* (routes/auth.py) or the popup flow (routes/google_auth.py), asks        *)
(* GET /auth/me, and signs out through POST /auth/logout or                *)
(* POST /auth/google/revoke, while the clock advances past the exp of the  *)
(* session token.  main.py mounts both routers at /auth, routes/auth.py    *)
(* first.                                                                   *)
(***************************************************************************)
\* the process environments: production or development, with or without
\* APP_FRONTEND_BASE_URL, the OAuth client and "http://localhost/auth/callback"
\* configured
LoginEnvirons ==
    LET site == Words.http \o Words.sep \o Words.localhost IN
    [ENV : {EnvNames.production, EnvNames.development}, APP_REFRESH_TOKEN_KEY : {Ch(75)},
     APP_GOOGLE_CLIENT_ID : {Ch(99)}, APP_GOOGLE_CLIENT_SECRET : {Ch(115)},
     APP_CORS_ORIGINS : {None}, APP_FRONTEND_BASE_URL : {None, site},
     APP_OAUTH_REDIRECT_URI_TEMPLATE : {None},
     APP_OAUTH_REDIRECT_URI : {site \o Literals.auth_callback},
     auth_oauth_redirect_uri : {None}]

\* the state parameter: empty, or one of two texts; the popup body may omit it
States == {<< >>, Ch(115), Ch(116)}
PopupStates == States \cup {None}

\* the clock around the exp of a session token minted at the start
SessionClockPoints ==
    {TicksPerMinute} \cup
    {access_token_expire_minutes * TicksPerMinute + d : d \in (0 - MaxEarly)..MaxEarly}

\* get_current_user returns None
NoCurrentUser == Raise(0, "None")

\* auth_service.get_current_user: the cookie "session", decoded with the
\* secret of the configuration and with no audience
get_current_user(jar, t) ==
    LET session_token == jar["session"] IN
    IF session_token = EmptyToken THEN NoCurrentUser
    ELSE IF JwtDecode(session_token, secret_key, "", t) # "decoded" THEN NoCurrentUser
    ELSE Return([id |-> session_token.payload.sub, email |-> session_token.payload.email,
                 name |-> session_token.payload.name,
                 picture |-> session_token.payload.picture,
                 roles |-> session_token.payload.roles, plan |-> session_token.payload.plan])

\* GET /auth/me
me(jar, t) ==
    LET user == get_current_user(jar, t) IN
    IF ~user.ok THEN Raise(401, "Not authenticated") ELSE user

\* POST /auth/logout: logout_user clears the cookie "session"
logout == [NoResponse EXCEPT !.status = 200, !.delete_cookie = "session"]

\* GET /auth/{provider}/callback: the code is exchanged, then the frontend
\* URL is looked up, then the cookie "session" is set
oauth_callback(provider_name, code, state, env, provider, t) ==
    LET done == session_exchange_code(provider_name, code, state, env, provider, t) IN
    IF ~done.res.ok THEN [Failed(done.res) EXCEPT !.calls = done.calls]
    ELSE IF Falsy(env.APP_FRONTEND_BASE_URL)
    THEN [Failed(Raise(500, "Frontend base URL not configured")) EXCEPT !.calls = done.calls]
    ELSE [NoResponse EXCEPT !.status = 200, !.set_cookie = "session",
                            !.cookie = done.res.claims, !.calls = done.calls]

\* the browser stores the cookie a response sets and drops the one it clears
Browser(jar, res) ==
    LET kept == IF res.delete_cookie = "" THEN jar
                ELSE [jar EXCEPT ![res.delete_cookie] = EmptyToken] IN
    IF res.set_cookie = "" THEN kept ELSE [kept EXCEPT ![res.set_cookie] = res.cookie]

\* the requests of a page of the first allowed origin to a popup route, with
\* or without the X-Requested-With header
LoginRequests(route) ==
    {[NoRequest EXCEPT !.route = route, !.origin = cors_origins[1],
                       !.x_requested_with = x, !.body = (route = "exchange"),
                       !.code = IF route = "exchange" THEN Ch(120) ELSE None,
                       !.state = s,
                       !.allowed_origins = _get_allowed_origins(environ)] :
        x \in {None, Words.XMLHttpRequest},
        s \in IF route = "exchange" THEN PopupStates ELSE {None}}

InitLogin ==
    /\ now = 0
    /\ environ \in LoginEnvirons
    /\ issued = EmptyToken /\ minted = NotMinted /\ token = EmptyToken /\ result = Idle
    /\ call = NoCall /\ outcome = NoOutcome /\ previous = NoFailure
    /\ svc = NoService
    /\ tasks = [t \in 1..MaxTasks |-> IdleOAuth.task]
    /\ net = IdleOAuth.net
    /\ reply = IdleOAuth.reply
    /\ request = NoRequest /\ served = NoResponse
    /\ cookies = NoCookies /\ users = NoUsers /\ jobs = NoJobs

\* the browser follows the provider's redirect to GET /auth/google/callback;
\* one login is attempted per behaviour
OAuthCallback ==
    /\ NothingIssued /\ request = NoRequest
    /\ \E provider \in ProviderAnswers, state \in States :
       \E res \in {oauth_callback(Literals.google, Ch(120), state, environ, provider, now)} :
        /\ request' = [NoRequest EXCEPT !.route = "oauth_callback",
                                        !.provider = Literals.google,
                                        !.code = Ch(120), !.state = state]
        /\ reply' = [IdleOAuth.reply EXCEPT !.op = "exchange_code", !.response = provider]
        /\ served' = res
        /\ cookies' = Browser(cookies, res)
        /\ issued' = res.cookie
        /\ minted' = IF res.status = 200
                     THEN [by |-> "oauth_callback",
                           input |-> [NoInput EXCEPT !.sub = provider.id,
                                                    !.email = provider.email],
                           ttl |-> access_token_expire_minutes, at |-> now]
                     ELSE minted
    /\ UNCHANGED <<now, token, result, guardVars, environ, svc, tasks, net, billingVars>>

\* the page posts the code of the popup to POST /auth/google/exchange
PopupExchange ==
    /\ NothingIssued /\ request = NoRequest
    /\ \E req \in LoginRequests("exchange"), google \in GoogleAnswers :
       \E done \in {exchange_google_code(req, environ, svc, Ch(71), google, now)} :
        /\ request' = req
        /\ reply' = [IdleOAuth.reply EXCEPT !.op = "exchange_code", !.response = google]
        /\ served' = done.res
        /\ svc' = done.service
        /\ cookies' = Browser(cookies, done.res)
        /\ issued' = done.res.cookie
        /\ minted' = IF done.res.status = 200
                     THEN [by |-> "exchange_google_code",
                           input |-> [NoInput EXCEPT !.sub = google.id_token.sub,
                                                    !.email = google.id_token.email],
                           ttl |-> access_token_expire_minutes, at |-> now]
                     ELSE minted
    /\ UNCHANGED <<now, token, result, guardVars, environ, tasks, net, billingVars>>

\* GET /auth/me, sent by the browser with its cookies, or by a client that
\* presents the session token of the login as the cookie "session"
Me ==
    \E jar \in {cookies} \cup (IF issued = EmptyToken THEN {}
                               ELSE {[NoCookies EXCEPT !["session"] = issued]}) :
        /\ result' = [op |-> "me", res |-> me(jar, now), jar |-> jar]
        /\ token' = jar["session"]
        /\ UNCHANGED <<now, issued, minted, guardVars, oauthVars, routeVars>>

\* POST /auth/logout after a login
Logout ==
    /\ issued # EmptyToken
    /\ served' = logout
    /\ cookies' = Browser(cookies, logout)
    /\ result' = Idle
    /\ UNCHANGED <<now, issued, minted, token, guardVars, oauthVars, request, billingVars>>

\* POST /auth/google/revoke after a login
Revoke ==
    /\ issued # EmptyToken
    /\ \E req \in LoginRequests("revoke") :
       \E signed_in \in {[req EXCEPT !.user = get_current_user(cookies, now).ok]} :
       \E done \in {revoke_google_token(signed_in, environ, svc, Ch(71))} :
        /\ request' = signed_in
        /\ served' = done.res
        /\ svc' = done.service
        /\ cookies' = Browser(cookies, done.res)
    /\ result' = Idle
    /\ UNCHANGED <<now, issued, minted, token, guardVars, environ, tasks, net, reply,
                   billingVars>>

\* time passes, up to the exp of the session token and beyond
Elapse ==
    /\ \E t \in SessionClockPoints : t > now /\ now' = t
    /\ result' = Idle
    /\ UNCHANGED <<issued, minted, token, guardVars, oauthVars, routeVars>>

NextLogin ==
    \/ OAuthCallback
    \/ PopupExchange
    \/ Me
    \/ Logout
    \/ Revoke
    \/ Elapse

SpecLogin == InitLogin /\ [][NextLogin]_vars

\* /auth/me has answered a request that presented the session token of the
\* login, under either cookie name
PresentsSession ==
    /\ result.op = "me" /\ issued # EmptyToken
    /\ \E name \in CookieNames : result.jar[name] = issued

\* the last thing the application did for the browser was to sign it out
LoggedOut == served.status = 200 /\ served.delete_cookie # ""

\* C21: once the session token has reached its exp, or the user has signed
\* out through /auth/logout or /auth/google/revoke, a request to /auth/me that
\* presents that token is answered as not authenticated.
C21_SessionEnds ==
    (PresentsSession /\ (~BeforeExpiry \/ LoggedOut))
    => (~result.res.ok /\ result.res.status = 401)

\* C24: after a successful popup exchange, GET /auth/me sent by the browser
\* with the cookie the exchange set is answered, before the exp of the
\* session, with the id and the email of the user who signed in, in every
\* environment.
C24_PopupSessionAuthenticated ==
    (/\ result.op = "me" /\ minted.by = "exchange_google_code"
     /\ result.jar = cookies /\ cookies[_get_cookie_config(environ)] = issued
     /\ BeforeExpiry)
    => /\ result.res.ok
       /\ result.res.claims.id = minted.input.sub
       /\ result.res.claims.email = minted.input.email

\* C26: the state parameter never influences a code exchange, in the
\* redirect flow or in the popup flow: with any other state the route sends
\* the same requests and gives the same answer, cookie and service.
C26_StateNeverInfluences ==
    [][/\ (request.route = "none" /\ request'.route = "oauth_callback")
            => \A s \in States :
                   oauth_callback(request'.provider, request'.code, s, environ,
                                  reply'.response, now) = served'
       /\ (request.route = "none" /\ request'.route = "exchange")
            => \A s \in PopupStates :
                   exchange_google_code([request' EXCEPT !.state = s], environ, svc, Ch(71),
                                        reply'.response, now)
                       = Step(served', << >>, svc')]_vars

\* a redirect login with the state "s" has set the session cookie
C26_Witness ==
    /\ request.route = "oauth_callback" /\ request.state = Ch(115)
    /\ served.status = 200 /\ cookies["session"] = issued /\ issued.form = "jws"
    /\ Endpoints(served.calls) = <<"token", "userinfo">>

\* a popup login with the state "t" has set the session cookie
C26_WitnessPopup ==
    /\ request.route = "exchange" /\ request.state = Ch(116)
    /\ served.status = 200 /\ cookies[served.set_cookie] = issued /\ issued.form = "jws"

====
